---- MODULE Spec2Model ----
(***************************************************************************)
(* Model of the Codicum sync tool (sync_parchment_data.py): QR-driven      *)
(* mapping of Drive assets to local archive entries, ZIP deduplication,    *)
(* healing and upload backfill, spreadsheet mirror and gap analysis.       *)
(* The Photos variant of the tool (sync_parchment_data_FIXED.py) is        *)
(* modelled beside it: sync_album, its detect_qr and its failure log.      *)
(*                                                                         *)
(* Python values: None is the string "None"; a dictionary key that is not  *)
(* present reads as Absent.  dict.get(k) maps Absent to None.              *)
(***************************************************************************)
EXTENDS Integers, Sequences, FiniteSets, TLC

VARIABLES
    dmsIn,      \* get_decimal_from_dms: the arguments [dms, ref]
    dmsOut,     \* get_decimal_from_dms: the returned value, in GpsUnit-ths of a degree
    gapIds,     \* run_gap_analysis: the keys of the mapping it is given
    gapLog,     \* run_gap_analysis: prefix -> the list it reports (<<>>: "no gaps")
    pc,         \* the position of the program (or of the function under check)
    mapping,    \* main: the in-memory Mapping Store, identifier -> entry
    files,      \* the local file system: path -> image bytes (IMAGES_DIR)
    drive,      \* the remote Drive: file id -> file
    healBefore, \* the mapping as it was when the last healing pass began
    healOps,    \* identifier -> the operations the last healing pass ran for it
    now,        \* the wall clock: a day number, printed by IsoFormat and SyncDate
    faults,     \* the remote calls that failed so far (a budget of MaxFaults)
    zipLast,    \* the last process_zip call: its arguments and what it built
    sheet,      \* the spreadsheet: the rows of Sheet1, each a list of cell values
    sheetRuns,  \* per log_to_gsheet call: the sheet it found, whether it rewrote it
    edited,     \* the one (identifier, field) changed between two spreadsheet runs
    storeFile,  \* photo_mapping.json: [exists, loadable, data]
    pages,      \* what files().list returns for the target folder, page by page
    run,        \* the number of the current run of main
    cursor,     \* process_folder's position: [page, item]
    stats,      \* of the current run: [downloads, matches]
    lastItem,   \* what process_folder did with the item it handled last
    thumbsFolder, \* THUMBS_FOLDER_ID
    trail,      \* of the current run: what it found, listed, fetched, uploaded, saved
    failedLog,  \* failed_matches.log: the lines appended so far
    imgIn,      \* detect_qr, generate_thumbnails, extract_exif: [qr_id, image, rect]
    imgOut      \* detect_qr, generate_thumbnails, extract_exif: what the call gave back

gpsVars == <<dmsIn, dmsOut>>
imgVars == <<imgIn, imgOut>>
gapVars == <<gapIds, gapLog>>
healVars == <<healBefore, healOps>>
mainVars == <<mapping, files, drive, now, faults, zipLast>>
sheetVars == <<sheet, sheetRuns, edited>>
progVars == <<storeFile, pages, run, cursor, stats, lastItem, thumbsFolder, trail,
             failedLog>>
vars == <<dmsIn, dmsOut, gapIds, gapLog, pc, mapping, files, drive, healBefore, healOps,
          now, faults, zipLast, sheet, sheetRuns, edited,
          storeFile, pages, run, cursor, stats, lastItem, thumbsFolder, trail,
          failedLog, imgIn, imgOut>>

None == "None"
Absent == "<absent>"

(***************************************************************************)
(* Generic helpers.                                                        *)
(***************************************************************************)
Min(S) == CHOOSE x \in S : \A y \in S : x <= y
Max(S) == CHOOSE x \in S : \A y \in S : x >= y

RECURSIVE SortedList(_)
\* sorted(list(S)) for a set of integers
SortedList(S) ==
    IF S = {} THEN <<>> ELSE <<Min(S)>> \o SortedList(S \ {Min(S)})

\* seq[:n]
Take(seq, n) == SubSeq(seq, 1, IF Len(seq) < n THEN Len(seq) ELSE n)

(***************************************************************************)
(* get_decimal_from_dms.  A float is modelled exactly, as an integer       *)
(* number of GpsUnit-ths of a degree; an EXIF component is a rational      *)
(* [n, d].  The inputs are chosen so that every division is exact.         *)
(***************************************************************************)
GpsUnit == 3600 * 100

NoDms == [dms |-> <<>>, ref |-> "N"]

GpsIdle == dmsIn = NoDms /\ dmsOut = 0

Rationals == { [n |-> 0, d |-> 1], [n |-> 10, d |-> 1], [n |-> 30, d |-> 1],
               [n |-> 59, d |-> 1], [n |-> 61, d |-> 2], [n |-> 3015, d |-> 100],
               [n |-> 7, d |-> 0] }

Refs == {"N", "S", "E", "W", "n"}

\* to_float raises ZeroDivisionError on a zero denominator
ToFloatRaises(val) == val.d = 0

ToFloat(val) == (val.n * GpsUnit) \div val.d

get_decimal_from_dms_swapped(dms, ref) ==
    IF Len(dms) < 3 \/ \E i \in 1..3 : ToFloatRaises(dms[i])
    THEN 0
    ELSE LET d == ToFloat(dms[1])
             m == ToFloat(dms[2]) \div 60
             s == ToFloat(dms[3]) \div 3600
         IN  IF ref \in {"S", "E"} THEN 0 - (d + m + s) ELSE d + m + s

get_decimal_from_dms(dms, ref) ==
    IF Len(dms) < 3 \/ \E i \in 1..3 : ToFloatRaises(dms[i])
    THEN 0      \* except Exception: return 0.0
    ELSE LET d == ToFloat(dms[1])
             m == ToFloat(dms[2]) \div 60
             s == ToFloat(dms[3]) \div 3600
         IN  IF ref \in {"S", "W"} THEN 0 - (d + m + s) ELSE d + m + s

GpsInit ==
    /\ dmsIn \in [dms : Rationals \X Rationals \X Rationals, ref : Refs]
    /\ dmsOut = 0
    /\ pc = "gps_call"

GpsConvert ==
    /\ pc = "gps_call"
    /\ pc' = "gps_ret"
    /\ dmsOut' = get_decimal_from_dms(dmsIn.dms, dmsIn.ref)
    /\ UNCHANGED dmsIn

(***************************************************************************)
(* run_gap_analysis.  An identifier is a string; Chars gives the           *)
(* characters of every string the program searches or sorts, on which      *)
(* re.search(r'([A-Za-z-]+)(\d+)') is computed.                            *)
(***************************************************************************)
GapIdle == gapIds = {} /\ gapLog = <<>>

Chars ==
    [ s \in {"A-1", "A-2", "A-4", "A-13", "B-07", "AB", "7", "#A-3", "A-2x",
             "1-B-4", "A_1", "", "Z-9", "Parchment ID"} |->
        CASE s = "A-1"   -> <<"A", "-", "1">>
          [] s = "A-2"   -> <<"A", "-", "2">>
          [] s = "A-4"   -> <<"A", "-", "4">>
          [] s = "A-13"  -> <<"A", "-", "1", "3">>
          [] s = "B-07"  -> <<"B", "-", "0", "7">>
          [] s = "AB"    -> <<"A", "B">>
          [] s = "7"     -> <<"7">>
          [] s = "#A-3"  -> <<"#", "A", "-", "3">>
          [] s = "A-2x"  -> <<"A", "-", "2", "x">>
          [] s = "1-B-4" -> <<"1", "-", "B", "-", "4">>
          [] s = "A_1"   -> <<"A", "_", "1">>
          [] s = ""      -> <<>>
          [] s = "Z-9"   -> <<"Z", "-", "9">>
          [] s = "Parchment ID" ->
               <<"P", "a", "r", "c", "h", "m", "e", "n", "t", " ", "I", "D">> ]

DigitVal ==
    [ c \in {"0", "1", "2", "3", "4", "5", "6", "7", "8", "9"} |->
        CASE c = "0" -> 0 [] c = "1" -> 1 [] c = "2" -> 2 [] c = "3" -> 3
          [] c = "4" -> 4 [] c = "5" -> 5 [] c = "6" -> 6 [] c = "7" -> 7
          [] c = "8" -> 8 [] c = "9" -> 9 ]

IsDigit(c) == c \in DOMAIN DigitVal
\* the class [A-Za-z-]
IsAlphaHyphen(c) ==
    c \in {"A", "B", "D", "I", "P", "Z", "a", "c", "e", "h", "m", "n", "r", "t", "x", "-"}

\* the last index of the run of [A-Za-z-] (of digits) that starts at i
AlphaRunEnd(s, i) ==
    Max({ j \in i..Len(s) : \A k \in i..j : IsAlphaHyphen(s[k]) })
DigitRunEnd(s, i) ==
    Max({ j \in i..Len(s) : \A k \in i..j : IsDigit(s[k]) })

RECURSIVE IntOf(_)
\* int(num) for a string of digits
IntOf(ds) ==
    IF ds = <<>> THEN 0
    ELSE 10 * IntOf(SubSeq(ds, 1, Len(ds) - 1)) + DigitVal[ds[Len(ds)]]

\* the start indices at which ([A-Za-z-]+)(\d+) matches
MatchStarts(s) ==
    { i \in 1..Len(s) :
        /\ IsAlphaHyphen(s[i])
        /\ AlphaRunEnd(s, i) < Len(s)
        /\ IsDigit(s[AlphaRunEnd(s, i) + 1]) }

\* re.search(...): the leftmost match and its groups (pref, num); ok is FALSE
\* when the pattern matches nowhere (re.search returns None)
ReSearch(s) ==
    IF MatchStarts(s) = {} THEN [ok |-> FALSE, pref |-> <<>>, num |-> <<>>]
    ELSE LET i == Min(MatchStarts(s))
             j == AlphaRunEnd(s, i)
             k == DigitRunEnd(s, j + 1)
         IN  [ok |-> TRUE, pref |-> SubSeq(s, i, j), num |-> SubSeq(s, j + 1, k)]

GapPreview == 10

\* prefixes[pref]: the numbers appended for pref (as a set: only min, max and
\* membership are read)
GapPrefixes(ids) ==
    LET matched == { q \in ids : ReSearch(Chars[q]).ok }
        prefs == { ReSearch(Chars[q]).pref : q \in matched }
    IN  [ p \in prefs |->
            { IntOf(ReSearch(Chars[q]).num) :
                q \in { r \in matched : ReSearch(Chars[r]).pref = p } } ]

run_gap_analysis_untruncated(ids) ==
    LET prefixes == GapPrefixes(ids)
    IN  [ p \in DOMAIN prefixes |->
            SortedList((Min(prefixes[p])..Max(prefixes[p])) \ prefixes[p]) ]

run_gap_analysis(ids) ==
    LET prefixes == GapPrefixes(ids)
    IN  [ p \in DOMAIN prefixes |->
            LET nums == prefixes[p]
                full_range == Min(nums)..Max(nums)
                missing == SortedList(full_range \ nums)
            IN  Take(missing, GapPreview) ]

MaxGapIds == 3

GapInit ==
    /\ gapIds \in { S \in SUBSET (DOMAIN Chars) : Cardinality(S) <= MaxGapIds }
    /\ gapLog = <<>>
    /\ pc = "gap_call"

GapAnalyse ==
    /\ pc = "gap_call"
    /\ pc' = "gap_ret"
    /\ gapLog' = run_gap_analysis(gapIds)
    /\ UNCHANGED gapIds

(***************************************************************************)
(* Image bytes.  An image is what the decoders make of its bytes:          *)
(*   decodable  cv2.imdecode returns an image                              *)
(*   qrs        the payloads pyzbar's decode returns, in its order         *)
(*   exif       what PIL's _getexif returns: ok is FALSE when it returns   *)
(*              nothing; make and model are Absent when the tag is not     *)
(*              there; gps is the GPSInfo tag, present or not, a missing   *)
(*              coordinate being <<>> and a missing reference Absent       *)
(***************************************************************************)
NoGps == [present |-> FALSE, lat |-> <<>>, lat_ref |-> Absent,
          lon |-> <<>>, lon_ref |-> Absent]

NoExif == [ok |-> FALSE, make |-> Absent, model |-> Absent, gps |-> NoGps]

Whole1(n) == [n |-> n, d |-> 1]

Dms(d, m, s) == <<Whole1(d), Whole1(m), Whole1(s)>>

Gps(lat, lat_ref, lon, lon_ref) ==
    [present |-> TRUE, lat |-> lat, lat_ref |-> lat_ref, lon |-> lon, lon_ref |-> lon_ref]

\* 0 deg 7.5 min West
LonA1 == <<Whole1(0), [n |-> 15, d |-> 2], Whole1(0)>>

ImgCorrupt == [empty |-> FALSE, decodable |-> FALSE, qrs |-> <<>>, exif |-> NoExif]
ImgPlain   == [empty |-> FALSE, decodable |-> TRUE, qrs |-> <<>>,
               exif |-> [ok |-> TRUE, make |-> "Canon", model |-> "EOS",
                         gps |-> NoGps]]
ImgA1      == [empty |-> FALSE, decodable |-> TRUE, qrs |-> <<"A-1">>,
               exif |-> [ok |-> TRUE, make |-> "Canon", model |-> "",
                         gps |-> Gps(Dms(10, 30, 0), "N", LonA1, "W")]]
ImgA1bare  == [empty |-> FALSE, decodable |-> TRUE, qrs |-> <<"A-1">>, exif |-> NoExif]
ImgA2      == [empty |-> FALSE, decodable |-> TRUE, qrs |-> <<"A-2", "A-1">>,
               exif |-> [ok |-> TRUE, make |-> "", model |-> "",
                         gps |-> NoGps]]
ImgEmptyQr == [empty |-> FALSE, decodable |-> TRUE, qrs |-> <<"">>, exif |-> NoExif]
\* the byte string of length 0
ImgEmpty   == [empty |-> TRUE, decodable |-> FALSE, qrs |-> <<>>, exif |-> NoExif]

\* pictures without a QR code whose GPSInfo lacks a reference, holds a
\* latitude with a zero denominator, a longitude of two components, the point
\* 0 S 0 W, seconds that need rounding, no latitude; make and model vary
ExifPictures ==
    { [empty |-> FALSE, decodable |-> TRUE, qrs |-> <<>>,
       exif |-> [ok |-> TRUE, make |-> x.make, model |-> x.model, gps |-> x.gps]] :
        x \in { [make |-> "Canon", model |-> "EOS",
                 gps |-> Gps(Dms(10, 30, 0), Absent, LonA1, "W")],
                [make |-> "Canon", model |-> "EOS",
                 gps |-> Gps(<<[n |-> 7, d |-> 0], Whole1(30), Whole1(0)>>, "N",
                             LonA1, "W")],
                [make |-> Absent, model |-> Absent,
                 gps |-> Gps(Dms(10, 30, 0), "S", <<Whole1(0), Whole1(7)>>, "E")],
                [make |-> Absent, model |-> "EOS",
                 gps |-> Gps(Dms(0, 0, 0), "S", Dms(0, 0, 0), "W")],
                [make |-> "", model |-> Absent,
                 gps |-> Gps(<<Whole1(51), Whole1(30), [n |-> 61, d |-> 2]>>, "N",
                             Dms(1, 59, 59), "E")],
                [make |-> "Canon", model |-> Absent,
                 gps |-> Gps(<<>>, "N", LonA1, "W")] } }

\* Python truthiness of a string-or-None value
Truthy(v) == v \notin {None, Absent, ""}

NoCall == [qr_id |-> None, image |-> ImgCorrupt, rect |-> None]
ImgIdle == imgIn = NoCall /\ imgOut = <<>>

\* dict.get(k): None for a missing key
Get(item, k) == IF item[k] = Absent THEN None ELSE item[k]

\* dict.get(k, default)
GetOr(item, k, default) == IF item[k] = Absent THEN default ELSE item[k]

Raised == "<raised>"

\* the try block of detect_qr, lines 201-208: [data, rect], both Raised when an
\* exception leaves the block (cv2.imdecode rejects an empty buffer)
detect_qr_try(image_data) ==
    IF image_data.empty THEN [data |-> Raised, rect |-> Raised]
    ELSE IF ~image_data.decodable THEN [data |-> None, rect |-> None]
    ELSE IF image_data.qrs # <<>>
         THEN [data |-> image_data.qrs[1], rect |-> "rect"]
         ELSE [data |-> None, rect |-> None]

\* except Exception: return None, None
Caught(r) == IF r.data = Raised THEN [data |-> None, rect |-> None] ELSE r

detect_qr(image_data) == Caught(detect_qr_try(image_data))

\* `if qr_id:` read as a test against None only
QrMatched_notNone(qr_id) == qr_id # None

\* if qr_id: (lines 362 and 443)
QrMatched(qr_id) == Truthy(qr_id)

\* f"{make} {model}".strip() or "Unknown"
CameraLabel(make, model) ==
    IF make = "" /\ model = "" THEN "Unknown"
    ELSE IF make = "" THEN model
    ELSE IF model = "" THEN make
    ELSE make \o " " \o model

\* the five digits after the point
Pad5(n) ==
    IF n < 10 THEN "0000" \o ToString(n)
    ELSE IF n < 100 THEN "000" \o ToString(n)
    ELSE IF n < 1000 THEN "00" \o ToString(n)
    ELSE IF n < 10000 THEN "0" \o ToString(n)
    ELSE ToString(n)

\* f"{x:.5f}" of the float of v GpsUnit-ths, rounded to the nearest 10^-5;
\* negative is the sign bit of the float, which -0.0 carries too
Fixed5(v, negative) ==
    LET a == IF v < 0 THEN 0 - v ELSE v
        r == (a * 10 + 18) \div 36
    IN  (IF negative THEN "-" ELSE "") \o ToString(r \div 100000) \o "."
            \o Pad5(r % 100000)

\* an exception is raised, and caught, inside get_decimal_from_dms
DmsRaises(dms) == Len(dms) < 3 \/ \E i \in 1..3 : ToFloatRaises(dms[i])

\* the sign bit of what get_decimal_from_dms returns: - (d + m + s) is -0.0
\* when the sum is 0.0
SignBit(dms, ref) == ~DmsRaises(dms) /\ ref \in {"S", "W"}

\* f"{decimal:.5f}" of get_decimal_from_dms(dms, ref)
DecimalText(dms, ref) == Fixed5(get_decimal_from_dms(dms, ref), SignBit(dms, ref))

\* lines 248-261: location from the GPSInfo tag
Location(gps) ==
    IF /\ gps.present
       /\ gps.lat # <<>> /\ Truthy(gps.lat_ref)
       /\ gps.lon # <<>> /\ Truthy(gps.lon_ref)
    THEN DecimalText(gps.lat, gps.lat_ref) \o ", " \o DecimalText(gps.lon, gps.lon_ref)
    ELSE "Unknown"

\* the try block of extract_exif, lines 232-262: both Raised when an
\* exception leaves it (Image.open rejects bytes that are not a picture)
extract_exif_try(image_data) ==
    IF image_data.empty \/ ~image_data.decodable
    THEN [camera |-> Raised, location |-> Raised]
    ELSE IF ~image_data.exif.ok
         THEN [camera |-> "Unknown", location |-> "Unknown"]
         ELSE [camera |-> CameraLabel(GetOr(image_data.exif, "make", ""),
                                      GetOr(image_data.exif, "model", "")),
               location |-> Location(image_data.exif.gps)]

\* except Exception: return "Unknown", "Unknown"
extract_exif(image_data) ==
    IF extract_exif_try(image_data).camera = Raised
    THEN [camera |-> "Unknown", location |-> "Unknown"]
    ELSE extract_exif_try(image_data)

IMAGES_DIR == "assets/images/"
THUMBS_DIR == "assets/thumbnails/"
LocalPath(qr_id) == IMAGES_DIR \o qr_id \o ".jpg"
ThumbPath(qr_id) == THUMBS_DIR \o qr_id \o "_thumb.jpg"
QrPath(qr_id) == THUMBS_DIR \o qr_id \o "_qr.jpg"

\* generate_thumbnails: bare is TRUE for the bare `return` of line 272, which
\* the caller's tuple unpacking turns into a TypeError
\* written: the files cv2.imwrite has made; an empty buffer raises in
\* cv2.imdecode and takes the handler of line 302
generate_thumbnails(qr_id, image_data, rect) ==
    IF image_data.empty
    THEN [bare |-> FALSE, thumb |-> None, qr |-> None, written |-> {}]
    ELSE IF ~image_data.decodable
    THEN [bare |-> TRUE, thumb |-> None, qr |-> None, written |-> {}]
    ELSE IF rect # None
         THEN [bare |-> FALSE, thumb |-> ThumbPath(qr_id), qr |-> QrPath(qr_id),
               written |-> {ThumbPath(qr_id), QrPath(qr_id)}]
         ELSE [bare |-> FALSE, thumb |-> None, qr |-> None,
               written |-> {ThumbPath(qr_id)}]

(***************************************************************************)
(* Mapping entries.  Every entry is a record of all the keys the program   *)
(* reads; a key the JSON object does not hold is Absent.                   *)
(***************************************************************************)
EntryKeys == {"filename", "drive_id", "source_zip", "timestamp", "local_path",
              "thumb_path", "qr_path", "creator", "camera", "location",
              "drive_thumb_id", "drive_qr_id"}

EmptyEntry == [k \in EntryKeys |-> Absent]

\* item[k] = v
Put(item, k, v) == [item EXCEPT ![k] = v]

\* the entry process_folder creates (lines 454-464) for the remote file f
FolderEntryRecord(file_id, f, qr_id, th, ex, creator) ==
    [EmptyEntry EXCEPT !.filename = f.name, !.drive_id = file_id,
                       !.timestamp = f.created, !.local_path = LocalPath(qr_id),
                       !.thumb_path = th.thumb, !.qr_path = th.qr,
                       !.creator = creator, !.camera = ex.camera,
                       !.location = ex.location]

(***************************************************************************)
(* The remote Drive.  A file is [name, kind, owners, created, image,       *)
(* archive]; owners.has is FALSE when the API returns no "owners" key,     *)
(* owners.names lists the displayName of each owner (Absent: none given).  *)
(***************************************************************************)
\* owners[0].get('displayName', 'Unknown') if owners else 'Unknown', on
\* f_meta.get('owners', [])
OwnerOrUnknown(owners) ==
    IF ~owners.has \/ owners.names = <<>> THEN "Unknown"
    ELSE IF owners.names[1] = Absent THEN "Unknown" ELSE owners.names[1]

\* the files a name query lists
FilesNamed(drv, name) == { id \in DOMAIN drv : drv[id].name = name }

(***************************************************************************)
(* main, step 3: the healing pass.                                         *)
(***************************************************************************)
\* 3b for one entry: [item, ops]
HealData_elif(qid, item, fs) ==
    LET local_img == GetOr(item, "local_path", "")
    IN
    IF local_img \notin DOMAIN fs THEN [item |-> item, ops |-> {}]
    ELSE IF ~(~Truthy(Get(item, "thumb_path")) \/ ~Truthy(Get(item, "camera")))
    THEN [item |-> item, ops |-> {}]
    ELSE
      LET img_data == fs[local_img]
          rect == detect_qr(img_data).rect
          th == generate_thumbnails(qid, img_data, rect)
          ex == extract_exif(img_data)
      IN
      IF ~Truthy(Get(item, "thumb_path"))
      THEN IF th.bare
           THEN [item |-> item, ops |-> {"read", "detect", "thumbs"}]
           ELSE [item |-> Put(Put(item, "thumb_path", th.thumb), "qr_path", th.qr),
                 ops |-> {"read", "detect", "thumbs"}]
      ELSE IF ~Truthy(Get(item, "camera")) \/ Get(item, "camera") = "Unknown"
      THEN [item |-> Put(Put(item, "camera", ex.camera), "location", ex.location),
            ops |-> {"read", "exif"}]
      ELSE [item |-> item, ops |-> {"read"}]

\* 3b without the tests of lines 536 and 548: every entry with a local image is
\* read and its thumbnails and EXIF values are made again
HealData_ungated(qid, item, fs) ==
    LET local_img == GetOr(item, "local_path", "")
    IN
    IF local_img \notin DOMAIN fs THEN [item |-> item, ops |-> {}]
    ELSE
      LET img_data == fs[local_img]
          rect == detect_qr(img_data).rect
          th == generate_thumbnails(qid, img_data, rect)
          ex == extract_exif(img_data)
          item1 == IF th.bare THEN item
                   ELSE Put(Put(item, "thumb_path", th.thumb), "qr_path", th.qr)
      IN  [item |-> IF th.bare THEN item
                    ELSE Put(Put(item1, "camera", ex.camera), "location", ex.location),
           ops |-> {"read", "detect", "thumbs"} \cup (IF th.bare THEN {} ELSE {"exif"})]

HealData(qid, item, fs) ==
    LET local_img == GetOr(item, "local_path", "")
    IN
    IF local_img \notin DOMAIN fs THEN [item |-> item, ops |-> {}]
    ELSE IF ~(~Truthy(Get(item, "thumb_path")) \/ ~Truthy(Get(item, "camera")))
    THEN [item |-> item, ops |-> {}]
    ELSE
      LET img_data == fs[local_img]
          doThumb == ~Truthy(Get(item, "thumb_path"))
          rect == detect_qr(img_data).rect
          th == generate_thumbnails(qid, img_data, rect)
          \* the TypeError of the unpacking leaves the try block
          raised == doThumb /\ th.bare
          item1 == IF doThumb /\ ~th.bare
                   THEN Put(Put(item, "thumb_path", th.thumb), "qr_path", th.qr)
                   ELSE item
          doExif == /\ ~raised
                    /\ (~Truthy(Get(item1, "camera")) \/ Get(item1, "camera") = "Unknown")
          ex == extract_exif(img_data)
          item2 == IF doExif
                   THEN Put(Put(item1, "camera", ex.camera), "location", ex.location)
                   ELSE item1
      IN  [item |-> item2,
           ops |-> {"read"} \cup (IF doThumb THEN {"detect", "thumbs"} ELSE {})
                            \cup (IF doExif THEN {"exif"} ELSE {})]

\* 3c for one entry, with the zip_owners cache: [item, ops, cache]
HealCreator(item, drv, zip_owners) ==
    IF ~(~Truthy(Get(item, "creator")) \/ Get(item, "creator") = "Unknown")
    THEN [item |-> item, ops |-> {}, cache |-> zip_owners]
    ELSE IF Truthy(Get(item, "drive_id"))
    THEN IF item.drive_id \notin DOMAIN drv
         THEN \* files().get raises: "Creator heal failed"
              [item |-> item, ops |-> {"owner"}, cache |-> zip_owners]
         ELSE LET creator == OwnerOrUnknown(drv[item.drive_id].owners)
              IN  [item |-> IF creator # "Unknown"
                            THEN Put(item, "creator", creator) ELSE item,
                   ops |-> {"owner"}, cache |-> zip_owners]
    ELSE IF Truthy(Get(item, "source_zip"))
    THEN LET z_name == item.source_zip
             found == FilesNamed(drv, z_name)
             first == drv[CHOOSE id \in found : TRUE].owners
             \* files[0].get('owners', [{}])[0] raises IndexError on "owners": []
             raises == /\ z_name \notin DOMAIN zip_owners
                       /\ found # {}
                       /\ first.has /\ first.names = <<>>
             looked == IF found = {} THEN "Unknown"
                       ELSE IF ~first.has THEN "Unknown"
                       ELSE IF first.names[1] = Absent THEN "Unknown"
                       ELSE first.names[1]
             cache1 == IF z_name \in DOMAIN zip_owners THEN zip_owners
                       ELSE (z_name :> looked) @@ zip_owners
             creator == cache1[z_name]
             ops == IF z_name \in DOMAIN zip_owners THEN {} ELSE {"owner"}
         IN  IF raises
             THEN [item |-> item, ops |-> ops, cache |-> zip_owners]
             ELSE [item |-> IF creator # "Unknown"
                            THEN Put(item, "creator", creator) ELSE item,
                   ops |-> ops, cache |-> cache1]
    ELSE [item |-> item, ops |-> {}, cache |-> zip_owners]

RECURSIVE HealLoop(_, _, _, _, _, _)
\* the loop of lines 528-579 over the entries not yet visited
HealLoop(todo, m, ops, fs, drv, zip_owners) ==
    IF todo = {} THEN [mapping |-> m, ops |-> ops]
    ELSE LET qid == CHOOSE q \in todo : TRUE
             d == HealData(qid, m[qid], fs)
             c == HealCreator(d.item, drv, zip_owners)
         IN  HealLoop(todo \ {qid}, [m EXCEPT ![qid] = c.item],
                      [ops EXCEPT ![qid] = d.ops \cup c.ops], fs, drv, c.cache)

HealPass(m, fs, drv) ==
    HealLoop(DOMAIN m, m, [q \in DOMAIN m |-> {}], fs, drv, <<>>)

\* the healing pass as a step from one position of main to the next
Heal(from, to) ==
    /\ pc = from
    /\ pc' = to
    /\ healBefore' = mapping
    /\ mapping' = HealPass(mapping, files, drive).mapping
    /\ healOps' = HealPass(mapping, files, drive).ops
    /\ UNCHANGED <<files, drive, now, faults, zipLast>>

HealIdle == healBefore = <<>> /\ healOps = <<>>

(***************************************************************************)
(* Strings.  Python orders strings by code point.                          *)
(***************************************************************************)
Ord ==
    [ c \in {" ", "#", "-", "0", "1", "2", "3", "4", "5", "6", "7", "8", "9", "A", "B",
             "D", "I", "P", "Z", "_", "a", "c", "e", "h", "m", "n", "r", "t", "x"} |->
        CASE c = " " -> 32 [] c = "#" -> 35 [] c = "-" -> 45
          [] c \in DOMAIN DigitVal -> 48 + DigitVal[c]
          [] c = "A" -> 65 [] c = "B" -> 66 [] c = "D" -> 68 [] c = "I" -> 73
          [] c = "P" -> 80 [] c = "Z" -> 90 [] c = "_" -> 95 [] c = "a" -> 97
          [] c = "c" -> 99 [] c = "e" -> 101 [] c = "h" -> 104 [] c = "m" -> 109
          [] c = "n" -> 110 [] c = "r" -> 114 [] c = "t" -> 116 [] c = "x" -> 120 ]

RECURSIVE SeqLess(_, _)
SeqLess(a, b) ==
    IF a = <<>> THEN b # <<>>
    ELSE IF b = <<>> THEN FALSE
    ELSE IF Ord[a[1]] # Ord[b[1]] THEN Ord[a[1]] < Ord[b[1]]
    ELSE SeqLess(Tail(a), Tail(b))

\* x < y on Python strings
StrLess(x, y) == SeqLess(Chars[x], Chars[y])

RECURSIVE SortedKeys(_)
\* sorted(mapping.keys())
SortedKeys(S) ==
    IF S = {} THEN <<>>
    ELSE LET least == CHOOSE x \in S : \A y \in S \ {x} : StrLess(x, y)
         IN  <<least>> \o SortedKeys(S \ {least})

\* the wall clock is a day number; the two formats the program prints it in
IsoFormat(clock) == "2026-01-0" \o ToString(clock) \o "T10:00:00"
SyncDate(clock) == "2026-01-0" \o ToString(clock) \o " 10:00"

(***************************************************************************)
(* log_to_gsheet.  The sheet is the list of rows values().get returns and  *)
(* values().update replaces; a row is a list of cell values.  Indices are  *)
(* 1-based here and 0-based in the source.                                 *)
(***************************************************************************)
headers == <<"Parchment ID", "Original Filename", "Captured Date", "Sync Date",
             "Creator", "Camera", "Location", "Image Preview", "QR Preview">>

ImageFormula(id) ==
    IF Truthy(id) THEN "=IMAGE(\"https://drive.google.com/uc?id=" \o id \o "\")"
    ELSE ""

\* row_data of lines 128-138, as column name -> value
RowData(qid, item, clock) ==
    [ h \in { headers[i] : i \in 1..Len(headers) } |->
        CASE h = "Parchment ID" -> qid
          [] h = "Original Filename" -> GetOr(item, "filename", "Unknown")
          [] h = "Captured Date" -> GetOr(item, "timestamp", "Unknown")
          [] h = "Sync Date" -> SyncDate(clock)
          [] h = "Creator" -> GetOr(item, "creator", "Unknown")
          [] h = "Camera" -> GetOr(item, "camera", "Unknown")
          [] h = "Location" -> GetOr(item, "location", "Unknown")
          [] h = "Image Preview" -> ImageFormula(Get(item, "drive_thumb_id"))
          [] h = "QR Preview" -> ImageFormula(Get(item, "drive_qr_id")) ]

RECURSIVE EnsureHeaders(_, _)
\* lines 110-114: append to current_headers the headers from the i-th on that
\* it lacks
EnsureHeaders(current_headers, i) ==
    IF i > Len(headers) THEN current_headers
    ELSE IF \E j \in 1..Len(current_headers) : current_headers[j] = headers[i]
         THEN EnsureHeaders(current_headers, i + 1)
         ELSE EnsureHeaders(Append(current_headers, headers[i]), i + 1)

\* col_map[name]: the last column holding name
ColOf(header, name) == Max({ i \in 1..Len(header) : header[i] = name })

\* existing_ids: the rows long enough to have an id cell; the last row wins
HasExisting(rows, id_col, qid) ==
    \E i \in 1..Len(rows) : Len(rows[i]) >= id_col /\ rows[i][id_col] = qid
ExistingRow(rows, id_col, qid) ==
    Max({ i \in 1..Len(rows) : Len(rows[i]) >= id_col /\ rows[i][id_col] = qid })

\* while len(row) <= target_col: row.append(""); row[target_col] = val
SetCell(row, c, val) ==
    [ i \in 1..(IF Len(row) < c THEN c ELSE Len(row)) |->
        IF i = c THEN val ELSE IF i <= Len(row) THEN row[i] ELSE "" ]

RECURSIVE SetCells(_, _, _, _)
\* write row_data into row, header by header
SetCells(row, header, data, i) ==
    IF i > Len(headers) THEN row
    ELSE SetCells(SetCell(row, ColOf(header, headers[i]), data[headers[i]]),
                  header, data, i + 1)

BlankRow(header) == [ i \in 1..Len(header) |-> "" ]

\* one iteration of the loop of lines 123-156 that never finds the identifier
\* among the existing rows
UpsertRow_append(rows, existing, id_col, qid, item, clock) ==
    Append(rows, SetCells(BlankRow(rows[1]), existing[1],
                          RowData(qid, item, clock), 1))

\* one iteration of the loop of lines 123-156; existing is the list of rows
\* before the loop, which col_map and existing_ids were computed from
UpsertRow(rows, existing, id_col, qid, item, clock) ==
    LET data == RowData(qid, item, clock)
    IN  IF HasExisting(existing, id_col, qid)
        THEN \* update existing row (only our columns)
             [rows EXCEPT ![ExistingRow(existing, id_col, qid)] =
                 SetCells(@, existing[1], data, 1)]
        ELSE Append(rows, SetCells(BlankRow(rows[1]), existing[1], data, 1))

RECURSIVE UpsertAll(_, _, _, _, _, _)
UpsertAll(rows, existing, id_col, keys, m, clock) ==
    IF keys = <<>> THEN rows
    ELSE UpsertAll(UpsertRow(rows, existing, id_col, keys[1], m[keys[1]], clock),
                   existing, id_col, Tail(keys), m, clock)

RECURSIVE InsertSorted(_, _, _)
\* row placed after the rows whose key is not greater (sorted() is stable)
InsertSorted(sorted, row, id_col) ==
    IF sorted = <<>> THEN <<row>>
    ELSE IF StrLess(row[id_col], sorted[Len(sorted)][id_col])
         THEN Append(InsertSorted(SubSeq(sorted, 1, Len(sorted) - 1), row, id_col),
                     sorted[Len(sorted)])
         ELSE Append(sorted, row)

RECURSIVE SortRows(_, _)
\* sorted(rows, key=lambda x: x[id_col])
SortRows(rows, id_col) ==
    IF rows = <<>> THEN <<>>
    ELSE InsertSorted(SortRows(SubSeq(rows, 1, Len(rows) - 1), id_col),
                      rows[Len(rows)], id_col)

RECURSIVE TrimRow(_)
\* values().get leaves out the empty cells at the end of a row
TrimRow(row) ==
    IF row # <<>> /\ row[Len(row)] = "" THEN TrimRow(SubSeq(row, 1, Len(row) - 1))
    ELSE row

RECURSIVE TrimRows(_)
\* ... and the empty rows at the end of the sheet
TrimRows(rows) ==
    IF rows # <<>> /\ rows[Len(rows)] = <<>> THEN TrimRows(SubSeq(rows, 1, Len(rows) - 1))
    ELSE rows

SheetGet(stored) == TrimRows([ i \in 1..Len(stored) |-> TrimRow(stored[i]) ])

SheetFailures == {"none", "get", "update"}

\* log_to_gsheet on the stored sheet; fail names the API call that raises.
\* The result: the rows the sheet holds afterwards, and whether the rewrite of
\* line 165 took place.  Every exception ends the function at line 170.
log_to_gsheet(stored, m, clock, fail) ==
    IF fail = "get" THEN [rows |-> stored, wrote |-> FALSE]
    ELSE
      LET rows == SheetGet(stored)
          rows1 == IF rows = <<>> THEN <<headers>>
                   ELSE [rows EXCEPT ![1] = EnsureHeaders(rows[1], 1)]
          id_col == ColOf(rows1[1], "Parchment ID")
          rows2 == UpsertAll(rows1, rows1, id_col, SortedKeys(DOMAIN m), m, clock)
          \* x[id_col] raises IndexError on a data row that has no id cell
          raises == \E i \in 2..Len(rows2) : Len(rows2[i]) < id_col
      IN  IF raises \/ fail = "update"
          THEN \* only the header initialisation of lines 105-107 was written
               [rows |-> IF rows = <<>> THEN <<headers>> ELSE stored, wrote |-> FALSE]
          ELSE [rows |-> <<rows2[1]>> \o SortRows(Tail(rows2), id_col), wrote |-> TRUE]

\* the report step: sheetRuns records, call by call, the sheet that was read,
\* the API call that raised and whether the sheet was rewritten
LogToSheet(fail) ==
    LET r == log_to_gsheet(sheet, mapping, now, fail)
    IN  /\ sheet' = r.rows
        /\ sheetRuns' = Append(sheetRuns, [before |-> sheet, fail |-> fail,
                                           wrote |-> r.wrote])

SheetIdle == sheet = <<>> /\ sheetRuns = <<>> /\ edited = <<>>

(***************************************************************************)
(* process_zip.  An archive is the sequence of its entries (infolist()); *)
(* an entry is [dir, base, ext, kind, image, readable]: its name is        *)
(* dir + base + ext, kind is "dir" for a directory entry, image is what    *)
(* its bytes decode to, readable is FALSE when reading it raises.          *)
(***************************************************************************)
ZipName(z_item) == z_item.dir \o z_item.base \o z_item.ext

\* os.path.basename(img_name)
Basename(z_item) == z_item.base \o z_item.ext

\* str.lower() of an extension
Lower(ext) ==
    CASE ext = ".JPG" -> ".jpg"
      [] ext = ".Png" -> ".png"
      [] OTHER -> ext

image_exts == {".jpg", ".jpeg", ".png", ".tiff", ".webp"}

\* img_name.lower().endswith(image_exts)
IsImageName(z_item) == Lower(z_item.ext) \in image_exts

\* any(m.get('filename') == name for m in mapping.values())
FilenameCaptured(m, name) == \E q \in DOMAIN m : Get(m[q], "filename") = name

ZipEntryRecord(z_item, file_name, qr_id, th, ex, creator, clock) ==
    [EmptyEntry EXCEPT !.filename = Basename(z_item), !.source_zip = file_name,
                       !.timestamp = IsoFormat(clock), !.local_path = LocalPath(qr_id),
                       !.thumb_path = th.thumb, !.qr_path = th.qr,
                       !.creator = creator, !.camera = ex.camera,
                       !.location = ex.location]

\* dict assignment m[k] = v
Assign(m, k, v) == (k :> v) @@ m

\* one iteration of the loop of lines 345-394 on the state
\* st = [m, fs, cleaned, new_matches, removed, raised]
ZipItem_keepMatched(st, z_item, file_name, creator, clock) ==
    IF z_item.kind = "dir"
    THEN [st EXCEPT !.cleaned = Append(@, z_item)]
    ELSE IF IsImageName(z_item)
    THEN IF FilenameCaptured(st.m, Basename(z_item))
         THEN [st EXCEPT !.removed = TRUE]
         ELSE IF ~z_item.readable THEN [st EXCEPT !.raised = TRUE]
         ELSE LET img_data == z_item.image
                  qr == detect_qr(img_data)
                  th == generate_thumbnails(qr.data, img_data, qr.rect)
                  ex == extract_exif(img_data)
              IN  IF QrMatched(qr.data)
                  THEN IF th.bare
                       THEN [st EXCEPT !.raised = TRUE,
                                       !.fs = Assign(@, LocalPath(qr.data), img_data)]
                       ELSE [st EXCEPT
                               !.fs = Assign(@, LocalPath(qr.data), img_data),
                               !.m = Assign(@, qr.data,
                                       ZipEntryRecord(z_item, file_name, qr.data,
                                                      th, ex, creator, clock)),
                               !.cleaned = Append(@, z_item),
                               !.new_matches = @ + 1,
                               !.removed = TRUE]
                  ELSE [st EXCEPT !.cleaned = Append(@, z_item)]
    ELSE IF ~z_item.readable THEN [st EXCEPT !.raised = TRUE]
         ELSE [st EXCEPT !.cleaned = Append(@, z_item)]

ZipItem(st, z_item, file_name, creator, clock) ==
    IF z_item.kind = "dir"
    THEN [st EXCEPT !.cleaned = Append(@, z_item)]
    ELSE IF IsImageName(z_item)
    THEN IF FilenameCaptured(st.m, Basename(z_item))
         THEN \* "Removing duplicate from ZIP"
              [st EXCEPT !.removed = TRUE]
         ELSE IF ~z_item.readable THEN [st EXCEPT !.raised = TRUE]
         ELSE LET img_data == z_item.image
                  qr == detect_qr(img_data)
                  th == generate_thumbnails(qr.data, img_data, qr.rect)
                  ex == extract_exif(img_data)
              IN  IF QrMatched(qr.data)
                  THEN IF th.bare
                       THEN \* the local image is written, then the unpacking raises
                            [st EXCEPT !.raised = TRUE,
                                       !.fs = Assign(@, LocalPath(qr.data), img_data)]
                       ELSE [st EXCEPT
                               !.fs = Assign(@, LocalPath(qr.data), img_data),
                               !.m = Assign(@, qr.data,
                                       ZipEntryRecord(z_item, file_name, qr.data,
                                                      th, ex, creator, clock)),
                               !.new_matches = @ + 1,
                               !.removed = TRUE]
                  ELSE \* not a match, keep it in the archive
                       [st EXCEPT !.cleaned = Append(@, z_item)]
    ELSE IF ~z_item.readable THEN [st EXCEPT !.raised = TRUE]
         ELSE [st EXCEPT !.cleaned = Append(@, z_item)]

RECURSIVE ZipLoop(_, _, _, _, _, _)
\* the loop from entry i on; an exception leaves it
ZipLoop(st, archive, i, file_name, creator, clock) ==
    IF i > Len(archive) \/ st.raised THEN st
    ELSE ZipLoop(ZipItem(st, archive[i], file_name, creator, clock),
                 archive, i + 1, file_name, creator, clock)

\* process_zip without the test of line 396: the archive built is uploaded
\* whatever it holds
process_zip_alwaysUpload(file_name, archive, m, fs, creator, clock, fetched, updated) ==
    LET st0 == [m |-> m, fs |-> fs, cleaned |-> <<>>, new_matches |-> 0,
                removed |-> FALSE, raised |-> FALSE]
        st == ZipLoop(st0, archive, 1, file_name, creator, clock)
    IN  IF ~fetched
        THEN [mapping |-> m, files |-> fs, built |-> FALSE, cleaned |-> <<>>,
              attempted |-> FALSE, replaced |-> FALSE, ret |-> 0, added |-> {}]
        ELSE [mapping |-> st.m, files |-> st.fs,
              built |-> ~st.raised,
              cleaned |-> st.cleaned,
              attempted |-> ~st.raised,
              replaced |-> ~st.raised /\ updated,
              ret |-> IF st.raised \/ ~updated THEN 0 ELSE st.new_matches,
              added |-> { q \in DOMAIN st.m : q \notin DOMAIN m \/ st.m[q] # m[q] }]

\* process_zip: fetched is FALSE when the download raises, updated is FALSE
\* when files().update raises.  The result: the mapping and the local files as
\* the call leaves them, the archive it built, whether files().update was
\* called (attempted), whether the remote archive was replaced, and the value
\* returned.
process_zip(file_name, archive, m, fs, creator, clock, fetched, updated) ==
    LET st0 == [m |-> m, fs |-> fs, cleaned |-> <<>>, new_matches |-> 0,
                removed |-> FALSE, raised |-> FALSE]
        st == ZipLoop(st0, archive, 1, file_name, creator, clock)
    IN  IF ~fetched
        THEN [mapping |-> m, files |-> fs, built |-> FALSE, cleaned |-> <<>>,
              attempted |-> FALSE, replaced |-> FALSE, ret |-> 0, added |-> {}]
        ELSE [mapping |-> st.m, files |-> st.fs,
              built |-> ~st.raised,
              cleaned |-> st.cleaned,
              attempted |-> ~st.raised /\ st.removed,
              replaced |-> ~st.raised /\ st.removed /\ updated,
              ret |-> IF st.raised \/ (st.removed /\ ~updated) THEN 0
                      ELSE st.new_matches,
              added |-> { q \in DOMAIN st.m : q \notin DOMAIN m \/ st.m[q] # m[q] }]

NoZip == [file |-> None, old |-> <<>>, before |-> <<>>, built |-> FALSE,
          cleaned |-> <<>>, attempted |-> FALSE, replaced |-> FALSE, ret |-> 0]

ZipIdle == zipLast = NoZip
DataIdle == mapping = <<>> /\ files = <<>> /\ drive = <<>>
RunIdle == now = 0 /\ faults = 0

(***************************************************************************)
(* The healing pass on its own: a store of one or two entries, each field  *)
(* missing, "Unknown" or set; the local image missing, corrupt or          *)
(* decodable; the owners of the remote file and archive.                   *)
(***************************************************************************)
Owners(names) == [has |-> TRUE, names |-> names]
NoOwners == [has |-> FALSE, names |-> <<>>]

DriveFile(name, kind, owners, image, archive) ==
    [name |-> name, kind |-> kind, owners |-> owners, created |-> "2026-01-01T09:00",
     image |-> image, archive |-> archive]

HealEntries(qid) ==
    { [EmptyEntry EXCEPT !.filename = "a.jpg", !.timestamp = "2026-01-01T09:00",
                         !.local_path = LocalPath(qid),
                         !.thumb_path = t, !.qr_path = q, !.camera = c,
                         !.location = l, !.creator = cr,
                         !.drive_id = src[1], !.source_zip = src[2]] :
        t \in {Absent, None, ThumbPath(qid)}, q \in {None, QrPath(qid)},
        c \in {Absent, "Unknown", "Canon EOS"}, l \in {"Unknown", "10.50000, -0.12500"},
        cr \in {Absent, "Unknown", "alice"},
        src \in {<<"f1", Absent>>, <<Absent, "z1.zip">>, <<Absent, Absent>>} }

\* a second entry, extracted from the same archive
HealSecond ==
    { [EmptyEntry EXCEPT !.filename = "b.jpg", !.timestamp = "2026-01-01T09:00",
                         !.local_path = LocalPath("A-2"),
                         !.thumb_path = ThumbPath("A-2"), !.qr_path = QrPath("A-2"),
                         !.camera = "Canon EOS", !.location = "Unknown",
                         !.creator = cr, !.source_zip = "z1.zip"] :
        cr \in {"Unknown", "bob"} }

HealStores ==
    { ("A-1" :> e) : e \in HealEntries("A-1") } \cup
    { ("A-1" :> e) @@ ("A-2" :> e2) : e \in HealEntries("A-1"), e2 \in HealSecond }

HealFiles ==
    { <<>> } \cup
    { (LocalPath("A-1") :> img) : img \in {ImgCorrupt, ImgPlain, ImgA1} }

HealDrives ==
    { d1 @@ d2 :
        d1 \in { <<>> } \cup
               { ("f1" :> DriveFile("a.jpg", "image", o, ImgA1, <<>>)) :
                   o \in {Owners(<<"alice">>), NoOwners} },
        d2 \in { <<>> } \cup
               { ("z1" :> DriveFile("z1.zip", "zip", o, ImgCorrupt, <<>>)) :
                   o \in {Owners(<<"bob">>), Owners(<<>>), Owners(<<Absent>>)} } }

HealInit ==
    /\ pc = "heal1"
    /\ mapping \in HealStores
    /\ files \in HealFiles
    /\ drive \in HealDrives
    /\ healBefore = <<>>
    /\ healOps = <<>>

(***************************************************************************)
(* process_zip on its own: an archive of up to MaxZipEntries entries with  *)
(* distinct names, against an empty store or a store that holds one of the *)
(* file names.                                                             *)
(***************************************************************************)
ZipEntry(dir, base, ext, kind, image, readable) ==
    [dir |-> dir, base |-> base, ext |-> ext, kind |-> kind, image |-> image,
     readable |-> readable]

ZipEntries ==
    { ZipEntry("", "a", ".jpg", "file", ImgA1, TRUE),
      ZipEntry("", "b", ".JPG", "file", ImgPlain, TRUE),
      ZipEntry("d/", "a", ".jpg", "file", ImgA2, TRUE),
      ZipEntry("", "e", ".png", "file", ImgA1bare, TRUE),
      ZipEntry("", "notes", ".txt", "file", ImgCorrupt, TRUE),
      ZipEntry("d/", "", "", "dir", ImgCorrupt, TRUE),
      ZipEntry("", "c", ".jpg", "file", ImgPlain, FALSE) }

MaxZipEntries == 3

RECURSIVE DistinctSeqs(_, _)
\* the sequences of at most n distinct elements of S
DistinctSeqs(S, n) ==
    IF n = 0 THEN { <<>> }
    ELSE LET shorter == DistinctSeqs(S, n - 1)
         IN  shorter \cup
             { Append(p[1], p[2]) :
                 p \in { pr \in shorter \X S :
                           /\ Len(pr[1]) = n - 1
                           /\ \A i \in 1..Len(pr[1]) : pr[1][i] # pr[2] } }

\* the store at the call: empty, holding the entry of a folder image named
\* as an archive member is, holding an entry an earlier archive gave
ZipStores ==
    { <<>>,
      ("A-1" :> FolderEntryRecord("f1",
                   DriveFile("a.jpg", "image", Owners(<<"alice">>), ImgA1, <<>>),
                   "A-1", generate_thumbnails("A-1", ImgA1, "rect"),
                   extract_exif(ImgA1), "alice")),
      ("A-2" :> ZipEntryRecord(ZipEntry("", "b", ".JPG", "file", ImgA2, TRUE),
                   "old.zip", "A-2", generate_thumbnails("A-2", ImgA2, "rect"),
                   extract_exif(ImgA2), "Unknown", 1)) }

ZipInit ==
    /\ pc = "zip_call"
    /\ \E archive \in DistinctSeqs(ZipEntries, MaxZipEntries) :
         drive = ("z1" :> DriveFile("z1.zip", "zip", Owners(<<"bob">>), ImgCorrupt, archive))
    /\ mapping \in ZipStores
    /\ files = <<>>
    /\ now = 2
    /\ faults = 0
    /\ zipLast = NoZip

\* process_zip on archive file_id, as process_folder calls it (line 426)
ZipCall(file_id, creator, fetched, updated) ==
    LET f == drive[file_id]
        r == process_zip(f.name, f.archive, mapping, files, creator, now,
                         fetched, updated)
    IN  /\ mapping' = r.mapping
        /\ files' = r.files
        /\ drive' = IF r.replaced
                    THEN [drive EXCEPT ![file_id].archive = r.cleaned]
                    ELSE drive
        /\ zipLast' = [file |-> file_id, old |-> f.archive, before |-> mapping,
                       built |-> r.built, cleaned |-> r.cleaned,
                       attempted |-> r.attempted, replaced |-> r.replaced,
                       ret |-> r.ret]

ZipOnly ==
    /\ pc = "zip_call"
    /\ pc' = "zip_ret"
    /\ \E fetched, updated \in BOOLEAN :
         ZipCall("z1", OwnerOrUnknown(drive["z1"].owners), fetched, updated)
    /\ UNCHANGED <<now, faults>>

(***************************************************************************)
(* process_folder and main.                                                *)
(***************************************************************************)
NoItem == [id |-> None, kind |-> None, before |-> <<>>, hit |-> FALSE,
           fetch |-> "none", detected |-> FALSE, qr |-> None, matched |-> FALSE]

\* photo_mapping.json: data is what the file records; loadable is FALSE when
\* json.load raises on it (a file cut short, a stray character)
NoStore == [exists |-> FALSE, loadable |-> TRUE, data |-> <<>>]

\* main, lines 479-485: the store the run begins with
LoadStore(store) == IF store.exists /\ store.loadable THEN store.data ELSE <<>>

\* nothing has happened in the run yet
\* what a run found when it began: the store file, the remote Drive, the sheet
NoStart == [store |-> NoStore, drive |-> <<>>, sheet |-> <<>>]

NoTrail == [visited |-> <<>>, failed |-> {}, listFailed |-> FALSE,
            logBefore |-> <<>>, uploadBefore |-> <<>>, uploadsAsked |-> {},
            uploadsSent |-> {},
            saveReached |-> FALSE,
            authFailed |-> FALSE, listed |-> FALSE, atStart |-> NoStart]

ProgIdle ==
    /\ storeFile = NoStore /\ pages = <<>> /\ run = 0
    /\ cursor = [page |-> 0, item |-> 0]
    /\ stats = [downloads |-> 0, matches |-> 0]
    /\ lastItem = NoItem /\ thumbsFolder = None
    /\ trail = NoTrail /\ failedLog = <<>>

\* any(m.get('drive_id') == file_id for m in mapping.values())
DriveIdCaptured(m, file_id) == \E q \in DOMAIN m : Get(m[q], "drive_id") = file_id

\* lines 429-467 for an image, without the test of line 429
ImageItem_noSkip(m, fs, file_id, f, fetched) ==
    LET img_data == f.image
        qr == detect_qr(img_data)
        th == generate_thumbnails(qr.data, img_data, qr.rect)
        ex == extract_exif(img_data)
        creator == OwnerOrUnknown(f.owners)
    IN  IF ~fetched
        THEN [m |-> m, fs |-> fs, hit |-> DriveIdCaptured(m, file_id),
              fetch |-> "failed", detected |-> FALSE, qr |-> None, matched |-> FALSE]
        ELSE IF ~QrMatched(qr.data)
        THEN [m |-> m, fs |-> fs, hit |-> DriveIdCaptured(m, file_id),
              fetch |-> "done", detected |-> TRUE, qr |-> qr.data, matched |-> FALSE]
        ELSE IF th.bare
        THEN [m |-> m, fs |-> Assign(fs, LocalPath(qr.data), img_data),
              hit |-> DriveIdCaptured(m, file_id),
              fetch |-> "done", detected |-> TRUE, qr |-> qr.data, matched |-> FALSE]
        ELSE [m |-> Assign(m, qr.data,
                           FolderEntryRecord(file_id, f, qr.data, th, ex, creator)),
              fs |-> Assign(fs, LocalPath(qr.data), img_data),
              hit |-> DriveIdCaptured(m, file_id),
              fetch |-> "done", detected |-> TRUE, qr |-> qr.data, matched |-> TRUE]

\* lines 429-467 for the image f with id file_id: the mapping and the local
\* files afterwards and what was done; fetched is FALSE when the download raises
ImageItem(m, fs, file_id, f, fetched) ==
    LET img_data == f.image
        qr == detect_qr(img_data)
        th == generate_thumbnails(qr.data, img_data, qr.rect)
        ex == extract_exif(img_data)
        creator == OwnerOrUnknown(f.owners)
    IN  IF DriveIdCaptured(m, file_id)
        THEN [m |-> m, fs |-> fs, hit |-> TRUE,
              fetch |-> "none", detected |-> FALSE, qr |-> None, matched |-> FALSE]
        ELSE IF ~fetched
        THEN [m |-> m, fs |-> fs, hit |-> FALSE,
              fetch |-> "failed", detected |-> FALSE, qr |-> None, matched |-> FALSE]
        ELSE IF ~QrMatched(qr.data)
        THEN [m |-> m, fs |-> fs, hit |-> FALSE,
              fetch |-> "done", detected |-> TRUE, qr |-> qr.data, matched |-> FALSE]
        ELSE IF th.bare
        THEN \* the local image is written, then the unpacking of line 450 raises
             [m |-> m, fs |-> Assign(fs, LocalPath(qr.data), img_data), hit |-> FALSE,
              fetch |-> "done", detected |-> TRUE, qr |-> qr.data, matched |-> FALSE]
        ELSE [m |-> Assign(m, qr.data,
                           FolderEntryRecord(file_id, f, qr.data, th, ex, creator)),
              fs |-> Assign(fs, LocalPath(qr.data), img_data), hit |-> FALSE,
              fetch |-> "done", detected |-> TRUE, qr |-> qr.data, matched |-> TRUE]

MaxRuns == 2
MaxFaults == 1

\* an API call or a file operation fails
Fault(ok) == IF ok THEN faults' = faults ELSE faults < MaxFaults /\ faults' = faults + 1

\* get_services, lines 58-80: whether it raises; without a usable token the
\* OAuth flow reads CREDENTIALS_FILE and raises FileNotFoundError when that
\* file is missing
get_services_raises(token_usable, credentials_file) ==
    ~token_usable /\ ~credentials_file

\* the same start with the `return` of line 491 left out
Start_ignoreAuthFailure ==
    /\ pc = "start"
    /\ mapping' = LoadStore(storeFile)
    /\ \E token_usable \in BOOLEAN, credentials_file \in BOOLEAN :
         LET ok == ~get_services_raises(token_usable, credentials_file)
         IN  /\ Fault(ok)
             /\ pc' = "setup"
             /\ trail' = [trail EXCEPT !.authFailed = ~ok,
                             !.atStart = [store |-> storeFile, drive |-> drive,
                                          sheet |-> sheet]]
    /\ UNCHANGED <<files, drive, now, zipLast, storeFile, pages, run, cursor, stats,
                   lastItem, thumbsFolder, failedLog>>

\* main, lines 479-491: load the store, authenticate
Start ==
    /\ pc = "start"
    /\ mapping' = LoadStore(storeFile)
    /\ \E token_usable \in BOOLEAN, credentials_file \in BOOLEAN :
         LET ok == ~get_services_raises(token_usable, credentials_file)
         IN  /\ Fault(ok)
             /\ pc' = IF ok THEN "setup" ELSE "done"
             /\ trail' = [trail EXCEPT !.authFailed = ~ok,
                             !.atStart = [store |-> storeFile, drive |-> drive,
                                          sheet |-> sheet]]
    /\ UNCHANGED <<files, drive, now, zipLast, storeFile, pages, run, cursor, stats,
                   lastItem, thumbsFolder, failedLog>>

\* main, lines 496-515
SetupThumbs ==
    /\ pc = "setup"
    /\ pc' = "list"
    /\ \E ok \in BOOLEAN :
         /\ Fault(ok)
         /\ thumbsFolder' = IF thumbsFolder # None THEN thumbsFolder
                            ELSE IF ok THEN "thumbs" ELSE None
    /\ cursor' = [page |-> 1, item |-> 0]
    /\ UNCHANGED <<mapping, files, drive, now, zipLast, storeFile, pages, run, stats,
                   lastItem, trail, failedLog>>

\* process_folder, lines 416-418: the listing of one page; a failure is not
\* caught, in process_folder or in main
ListPage ==
    /\ pc = "list"
    /\ \E ok \in BOOLEAN :
         /\ Fault(ok)
         /\ LET items == IF cursor.page <= Len(pages) THEN pages[cursor.page] ELSE <<>>
            IN  /\ pc' = IF ~ok THEN "dead" ELSE IF items = <<>> THEN "heal" ELSE "items"
                /\ cursor' = IF ok /\ items # <<>> THEN [cursor EXCEPT !.item = 1]
                             ELSE cursor
         /\ trail' = [trail EXCEPT !.listFailed = ~ok, !.listed = TRUE]
    /\ UNCHANGED <<mapping, files, drive, now, zipLast, storeFile, pages, run, stats,
                   lastItem, thumbsFolder, failedLog>>

\* the same without the try of line 433: the exception of a download ends
\* the run
Advance_abortOnFailure ==
    IF lastItem'.fetch = "failed"
    THEN pc' = "dead" /\ cursor' = cursor
    ELSE IF cursor.item < Len(pages[cursor.page])
    THEN pc' = "items" /\ cursor' = [cursor EXCEPT !.item = @ + 1]
    ELSE IF cursor.page < Len(pages)
    THEN pc' = "list" /\ cursor' = [page |-> cursor.page + 1, item |-> 0]
    ELSE pc' = "heal" /\ cursor' = cursor

\* lines 469-470 and the end of the loop of line 420
Advance ==
    IF cursor.item < Len(pages[cursor.page])
    THEN pc' = "items" /\ cursor' = [cursor EXCEPT !.item = @ + 1]
    ELSE IF cursor.page < Len(pages)
    THEN pc' = "list" /\ cursor' = [page |-> cursor.page + 1, item |-> 0]
    ELSE pc' = "heal" /\ cursor' = cursor

CurrentId == pages[cursor.page][cursor.item]

\* the item at the cursor has been handled; failed: its download raised
Visit(failed) ==
    trail' = [trail EXCEPT !.visited = Append(@, CurrentId),
                           !.failed = IF failed THEN @ \cup {CurrentId} ELSE @,
                           !.logBefore = failedLog]

\* lines 425-427
ArchiveItem ==
    /\ pc = "items"
    /\ drive[CurrentId].kind = "zip"
    /\ \E fetched, updated \in BOOLEAN :
         /\ Fault(fetched /\ updated)
         /\ ~(~fetched /\ ~updated)
         \* files().update can only fail where it is called
         /\ updated \/ process_zip(drive[CurrentId].name, drive[CurrentId].archive,
                                    mapping, files, "Unknown", now, TRUE, TRUE).replaced
         /\ ZipCall(CurrentId, OwnerOrUnknown(drive[CurrentId].owners), fetched, updated)
         /\ LET r == process_zip(drive[CurrentId].name, drive[CurrentId].archive,
                                  mapping, files, OwnerOrUnknown(drive[CurrentId].owners),
                                  now, fetched, updated)
            IN  /\ stats' = [downloads |-> stats.downloads + 1,
                             matches |-> stats.matches + r.ret]
                /\ lastItem' = [id |-> CurrentId, kind |-> "zip", before |-> mapping,
                                hit |-> DriveIdCaptured(mapping, CurrentId),
                                fetch |-> IF fetched THEN "done" ELSE "failed",
                                detected |-> r.built, qr |-> None,
                                matched |-> r.added # {}]
         /\ Visit(~fetched)
    /\ Advance
    /\ UNCHANGED <<now, storeFile, pages, run, thumbsFolder, failedLog>>

\* lines 429-467
PlainItem ==
    /\ pc = "items"
    /\ drive[CurrentId].kind = "image"
    /\ \E fetched \in BOOLEAN :
         LET r == ImageItem(mapping, files, CurrentId, drive[CurrentId], fetched)
         IN  /\ Fault(fetched)
             /\ fetched \/ ~r.hit
             /\ mapping' = r.m
             /\ files' = r.fs
             /\ stats' = [downloads |-> stats.downloads +
                                          (IF r.fetch = "none" THEN 0 ELSE 1),
                          matches |-> stats.matches + (IF r.matched THEN 1 ELSE 0)]
             /\ lastItem' = [id |-> CurrentId, kind |-> "image", before |-> mapping,
                             hit |-> r.hit, fetch |-> r.fetch, detected |-> r.detected,
                             qr |-> r.qr, matched |-> r.matched]
             /\ Visit(r.fetch = "failed")
    /\ Advance
    /\ UNCHANGED <<drive, now, zipLast, storeFile, pages, run, thumbsFolder, failedLog>>

\* upload_thumbnail: the id of the file created, None without a folder or
\* when the upload fails
upload_thumbnail(folder, qr_id, thumb_type, n, ok) ==
    IF ~Truthy(folder) THEN None
    ELSE IF ~ok THEN None
    ELSE "id:" \o qr_id \o "_" \o thumb_type \o ".jpg#" \o ToString(n)

\* the uploads step 4 asks for: <<qid, thumb_type>>
UploadsDue(m) ==
    { <<q, "thumb">> : q \in { k \in DOMAIN m :
          Truthy(Get(m[k], "thumb_path")) /\ ~Truthy(Get(m[k], "drive_thumb_id")) } }
    \cup
    { <<q, "qr">> : q \in { k \in DOMAIN m :
          Truthy(Get(m[k], "qr_path")) /\ ~Truthy(Get(m[k], "drive_qr_id")) } }

\* the files().create calls step 4 makes: upload_thumbnail returns before the
\* call when there is no thumbnails folder
UploadsSent(m, folder) == IF Truthy(folder) THEN UploadsDue(m) ELSE {}

\* main, lines 585-589; failing: the uploads that raise
UploadPass(m, folder, n, failing) ==
    [ q \in DOMAIN m |->
        LET item1 == IF <<q, "thumb">> \in UploadsDue(m)
                     THEN Put(m[q], "drive_thumb_id",
                              upload_thumbnail(folder, q, "thumb", n,
                                               <<q, "thumb">> \notin failing))
                     ELSE m[q]
        IN  IF <<q, "qr">> \in UploadsDue(m)
            THEN Put(item1, "drive_qr_id",
                     upload_thumbnail(folder, q, "qr", n, <<q, "qr">> \notin failing))
            ELSE item1 ]

Upload ==
    /\ pc = "upload"
    /\ pc' = "save"
    /\ \E failing \in SUBSET UploadsDue(mapping) :
         /\ Cardinality(failing) <= MaxFaults - faults
         /\ failing # {} => Truthy(thumbsFolder)
         /\ faults' = faults + Cardinality(failing)
         /\ mapping' = UploadPass(mapping, thumbsFolder, run, failing)
    /\ trail' = [trail EXCEPT !.uploadBefore = mapping,
                              !.uploadsAsked = UploadsDue(mapping),
                              !.uploadsSent = UploadsSent(mapping, thumbsFolder)]
    /\ UNCHANGED <<files, drive, now, zipLast, storeFile, pages, run, cursor, stats,
                   lastItem, thumbsFolder, failedLog>>

\* main, lines 592-597
Save ==
    /\ pc = "save"
    /\ pc' = "report"
    /\ \E ok \in BOOLEAN :
         /\ Fault(ok)
         /\ storeFile' = IF ok THEN [exists |-> TRUE, loadable |-> TRUE, data |-> mapping]
                          ELSE storeFile
    /\ trail' = [trail EXCEPT !.saveReached = TRUE]
    /\ UNCHANGED <<mapping, files, drive, now, zipLast, pages, run, cursor, stats,
                   lastItem, thumbsFolder, failedLog>>

\* main, lines 600-603
Report ==
    /\ pc = "report"
    /\ pc' = "done"
    /\ \E fail \in SheetFailures :
         /\ Fault(fail = "none")
         /\ LogToSheet(fail)
    /\ gapIds' = DOMAIN mapping
    /\ gapLog' = run_gap_analysis(DOMAIN mapping)
    /\ UNCHANGED <<mapping, files, drive, now, zipLast, storeFile, pages, run, cursor,
                   stats, lastItem, thumbsFolder, edited, trail, failedLog>>

\* the program is started again: a new process, later, on the same remote
\* source, the same local files and the store file the last run left
Restart ==
    /\ pc \in {"done", "dead"}
    /\ run < MaxRuns
    /\ pc' = "start"
    /\ run' = run + 1
    /\ now' = now + 1
    /\ mapping' = <<>>
    /\ thumbsFolder' = None
    /\ cursor' = [page |-> 0, item |-> 0]
    /\ stats' = [downloads |-> 0, matches |-> 0]
    /\ lastItem' = NoItem
    /\ zipLast' = NoZip
    /\ healBefore' = <<>>
    /\ healOps' = <<>>
    /\ trail' = NoTrail
    /\ UNCHANGED <<files, drive, faults, storeFile, pages, failedLog, imgVars, gpsVars,
                   gapVars, sheetVars>>

(***************************************************************************)
(* The remote folder, the store and the sheet main starts from.            *)
(***************************************************************************)
MainF1 == DriveFile("a.jpg", "image", Owners(<<"alice">>), ImgA1, <<>>)
MainF2 ==
    { DriveFile("b.jpg", "image", NoOwners, img, <<>>) :
        img \in {ImgPlain, ImgA1bare, ImgEmptyQr, ImgCorrupt} }
MainArchives ==
    { << ZipEntry("", "a", ".jpg", "file", ImgA2, TRUE),
         ZipEntry("", "notes", ".txt", "file", ImgCorrupt, TRUE) >>,
      << ZipEntry("d/", "a", ".jpg", "file", ImgA1, TRUE),
         ZipEntry("", "b", ".JPG", "file", ImgPlain, TRUE) >>,
      << ZipEntry("", "c", ".jpg", "file", ImgPlain, FALSE) >> }
MainDrives ==
    { ("f1" :> MainF1) @@ ("f2" :> f2) @@
      ("z1" :> DriveFile("z1.zip", "zip", Owners(<<"bob">>), ImgCorrupt, archive)) :
        f2 \in MainF2, archive \in MainArchives }

\* the pages of the listing; a page but the last comes with a nextPageToken
MainPages ==
    { <<>>,
      << <<"f2">> >>,
      << <<"f1", "f2", "z1">> >>,
      << <<"z1">>, <<"f2", "f1">> >>,
      << <<"f1">>, <<>>, <<"f2">> >> }

\* the store file and the local files: no store, an empty store, the store
\* a run that found f1 has left, that store in a file json.load rejects
MainStored ==
    LET qr == detect_qr(ImgA1)
        e == FolderEntryRecord("f1", MainF1, "A-1",
                               generate_thumbnails("A-1", ImgA1, qr.rect),
                               extract_exif(ImgA1), "alice")
        m == ("A-1" :> e)
    IN  { [store |-> NoStore, files |-> <<>>],
          [store |-> [exists |-> TRUE, loadable |-> TRUE, data |-> <<>>], files |-> <<>>],
          [store |-> [exists |-> TRUE, loadable |-> TRUE,
                      data |-> UploadPass(m, "thumbs", 0, {})],
           files |-> (LocalPath("A-1") :> ImgA1)],
          [store |-> [exists |-> TRUE, loadable |-> FALSE,
                      data |-> UploadPass(m, "thumbs", 0, {})],
           files |-> (LocalPath("A-1") :> ImgA1)] }

\* a sheet somebody keeps notes in
MainSheet ==
    << <<"Notes", "Parchment ID", "Creator">>,
       <<"keep", "Z-9", "carol">> >>

MainInit ==
    /\ pc = "start"
    /\ run = 1
    /\ now = 1
    /\ faults = 0
    /\ mapping = <<>>
    /\ drive \in MainDrives
    /\ pages \in MainPages
    /\ \E st \in MainStored : storeFile = st.store /\ files = st.files
    /\ sheet \in {<<>>, MainSheet}
    /\ sheetRuns = <<>>
    /\ edited = <<>>
    /\ cursor = [page |-> 0, item |-> 0]
    /\ stats = [downloads |-> 0, matches |-> 0]
    /\ lastItem = NoItem
    /\ thumbsFolder = None
    /\ trail = NoTrail
    /\ failedLog = <<>>
    /\ zipLast = NoZip

(***************************************************************************)
(* log_to_gsheet on its own: a first call on a sheet, one field of one     *)
(* entry of the store changes, a second call.                              *)
(***************************************************************************)
\* the column row_data writes an entry's field to (lines 128-138); None for a
\* field no column shows
FieldColumn(k) ==
    CASE k = "filename" -> "Original Filename"
      [] k = "timestamp" -> "Captured Date"
      [] k = "creator" -> "Creator"
      [] k = "camera" -> "Camera"
      [] k = "location" -> "Location"
      [] k = "drive_thumb_id" -> "Image Preview"
      [] k = "drive_qr_id" -> "QR Preview"
      [] OTHER -> None

\* entries as process_folder and process_zip create them
SheetEntryF ==
    UploadPass(("A-13" :> FolderEntryRecord("f1", MainF1, "A-13",
                              generate_thumbnails("A-13", ImgA1, "rect"),
                              extract_exif(ImgA1), "alice")),
               "thumbs", 1, {})["A-13"]
SheetEntryZ ==
    UploadPass(("A-2" :> ZipEntryRecord(ZipEntry("", "b", ".JPG", "file", ImgA2, TRUE),
                             "z1.zip", "A-2",
                             generate_thumbnails("A-2", ImgA2, "rect"),
                             extract_exif(ImgA2), "Unknown", 1)),
               None, 1, {})["A-2"]

SheetStores ==
    { ("A-2" :> SheetEntryZ),
      ("A-13" :> SheetEntryF) @@ ("A-2" :> SheetEntryZ),
      ("A-13" :> SheetEntryF) @@ ("7" :> SheetEntryZ),
      ("A-2" :> SheetEntryZ) @@ ("Parchment ID" :> SheetEntryF) }

\* sheets somebody keeps notes in: a column of their own, rows of their own,
\* a row cut short, an empty row between two rows
UserSheets ==
    { << <<"Parchment ID", "Notes">>,
         <<"Z-9", "keep">>,
         <<>>,
         <<"A-4", "keep too">> >>,
      << <<"Notes", "Parchment ID", "Creator">>,
         <<"keep", "A-2", "carol">>,
         <<"", "Z-9", "dave">> >>,
      << <<"Parchment ID", "Notes">>,
         <<"Z-9", "keep">>,
         <<"A-13">> >>,
      << <<"Notes", "Parchment ID">>,
         <<"only a note">> >> }

SheetInit ==
    /\ pc = "sheet1"
    /\ mapping \in SheetStores
    /\ sheet \in {<<>>} \cup UserSheets
    /\ sheetRuns = <<>>
    /\ edited = <<>>
    /\ now = 1
    /\ faults = 0
    /\ files = <<>> /\ drive = <<>>

\* main, line 600
SheetRun(from, to) ==
    /\ pc = from
    /\ pc' = to
    /\ \E fail \in SheetFailures : LogToSheet(fail)
    /\ UNCHANGED <<mapping, files, drive, now, faults, zipLast, edited>>

\* between two runs one field of one entry takes another value; the clock
\* may have moved on
EditStore ==
    /\ pc = "edit"
    /\ pc' = "sheet2"
    /\ \E q \in DOMAIN mapping, k \in EntryKeys :
         /\ mapping' = [mapping EXCEPT ![q] = Put(@, k, "edited")]
         /\ edited' = <<q, k>>
    /\ now' \in {now, now + 1}
    /\ UNCHANGED <<files, drive, faults, zipLast, sheet, sheetRuns>>

(***************************************************************************)
(* The Photos variant (sync_parchment_data_FIXED.py): albums of media      *)
(* items, the mapping saved at every match, a log of the items without a   *)
(* QR code.  The bytes of a media item are image bytes with cropQrs, what  *)
(* the decoder finds in the top-left 45% of the picture, and tiny, TRUE    *)
(* for a picture not more than two pixels high or wide.                    *)
(***************************************************************************)
PhotoBytes(image, cropQrs, tiny) ==
    [empty |-> image.empty, decodable |-> image.decodable, qrs |-> image.qrs,
     exif |-> image.exif, cropQrs |-> cropQrs, tiny |-> tiny]

MediaItem(filename, bytes) ==
    [filename |-> filename, creationTime |-> "2026-01-01T09:00:00Z", bytes |-> bytes]

BaseUrl(google_id) == "https://lh3.example/" \o google_id

\* detect_qr of the variant: the identifier, None, or Raised when an
\* exception leaves the function (imdecode on an empty buffer, cvtColor on an
\* empty crop)
detect_qr_photos(image_bytes) ==
    IF image_bytes.empty THEN Raised
    ELSE IF ~image_bytes.decodable THEN None
    ELSE IF image_bytes.tiny THEN Raised
    ELSE IF image_bytes.cropQrs # <<>> THEN image_bytes.cropQrs[1]
    ELSE None

\* the entry of lines 300-307
PhotoEntryRecord(item, google_id, archive_name, qr_code) ==
    [filename |-> item.filename, google_url |-> BaseUrl(google_id),
     google_id |-> google_id, timestamp |-> item.creationTime,
     archive |-> archive_name, local_path |-> LocalPath(qr_code)]

\* lines 270-274
AlreadyScanned(m, google_id) == \E q \in DOMAIN m : m[q].google_id = google_id

\* line 312
FailedLine(item, archive_name, google_id) ==
    item.filename \o " | " \o archive_name \o " | " \o BaseUrl(google_id) \o "\n"

\* lines 262-312 for one media item: what is left of the mapping, the store
\* file, the local files and the log, and how the iteration ended;
\* scanned/mirrored: the two downloads succeed
MediaStep(m, store, fs, log, item, google_id, archive_name, scanned, mirrored) ==
    LET qr_code == detect_qr_photos(item.bytes)
        same == [m |-> m, store |-> store, fs |-> fs, log |-> log, hit |-> FALSE,
                 fetch |-> "none", detected |-> FALSE, qr |-> None, matched |-> FALSE,
                 raised |-> FALSE]
    IN  IF AlreadyScanned(m, google_id) THEN [same EXCEPT !.hit = TRUE]
        ELSE IF ~scanned \/ item.bytes.empty THEN [same EXCEPT !.fetch = "failed"]
        ELSE IF qr_code = Raised
        THEN [same EXCEPT !.fetch = "done", !.raised = TRUE]
        ELSE IF Truthy(qr_code)
        THEN IF mirrored
             THEN LET m1 == Assign(m, qr_code,
                                   PhotoEntryRecord(item, google_id, archive_name, qr_code))
                  IN  [same EXCEPT !.m = m1,
                                   !.store = [exists |-> TRUE, loadable |-> TRUE, data |-> m1],
                                   !.fs = Assign(fs, LocalPath(qr_code), item.bytes),
                                   !.fetch = "done", !.detected = TRUE,
                                   !.qr = qr_code, !.matched = TRUE]
             ELSE [same EXCEPT !.fetch = "failed", !.detected = TRUE, !.qr = qr_code]
        ELSE [same EXCEPT !.log = Append(log, FailedLine(item, archive_name, google_id)),
                          !.fetch = "done", !.detected = TRUE, !.qr = qr_code]

AlbumPages == pages[cursor.album].pages
AlbumCurrentId == AlbumPages[cursor.page][cursor.item]

\* the next album of the loop of line 359, or the end of main
NextAlbum ==
    IF cursor.album < Len(pages)
    THEN pc' = "a_search" /\ cursor' = [album |-> cursor.album + 1, page |-> 1, item |-> 0]
    ELSE pc' = "a_report" /\ cursor' = cursor

\* main, lines 319-356
AlbumStart ==
    /\ pc = "a_start"
    /\ \E ok \in BOOLEAN :
         /\ Fault(ok)
         /\ IF ok /\ pages # <<>>
            THEN /\ pc' = "a_search"
                 /\ mapping' = IF storeFile.exists THEN storeFile.data ELSE <<>>
                 /\ cursor' = [album |-> 1, page |-> 1, item |-> 0]
            ELSE /\ pc' = "a_done"
                 /\ UNCHANGED <<mapping, cursor>>
         /\ trail' = [trail EXCEPT !.authFailed = ~ok,
                         !.atStart = [store |-> storeFile, drive |-> drive,
                                      sheet |-> sheet]]
    /\ UNCHANGED <<files, drive, now, zipLast, storeFile, pages, run, stats, lastItem,
                   thumbsFolder, failedLog>>

\* sync_album, lines 240-259: the search of one page
AlbumSearch ==
    /\ pc = "a_search"
    /\ \E ok \in BOOLEAN :
         /\ Fault(ok)
         /\ LET items == IF cursor.page <= Len(AlbumPages) THEN AlbumPages[cursor.page]
                         ELSE <<>>
            IN  IF ok /\ items # <<>>
                THEN pc' = "a_items" /\ cursor' = [cursor EXCEPT !.item = 1]
                ELSE NextAlbum
         /\ trail' = [trail EXCEPT !.listFailed = @ \/ ~ok, !.listed = TRUE]
    /\ UNCHANGED <<mapping, files, drive, now, zipLast, storeFile, pages, run, stats,
                   lastItem, thumbsFolder, failedLog>>

\* sync_album, lines 261-316: one media item, then the next item, the next
\* page or the next album; an exception of detect_qr ends the album (line 363)
AlbumItem ==
    /\ pc = "a_items"
    /\ \E scanned, mirrored \in BOOLEAN :
         LET r == MediaStep(mapping, storeFile, files, failedLog, drive[AlbumCurrentId],
                            AlbumCurrentId, pages[cursor.album].title, scanned, mirrored)
             all == MediaStep(mapping, storeFile, files, failedLog, drive[AlbumCurrentId],
                              AlbumCurrentId, pages[cursor.album].title, TRUE, TRUE)
         IN  /\ Fault(scanned /\ mirrored)
             \* a download can only fail where it is made
             /\ ~(~scanned /\ ~mirrored)
             /\ scanned \/ ~all.hit
             /\ mirrored \/ all.matched
             /\ mapping' = r.m
             /\ storeFile' = r.store
             /\ files' = r.fs
             /\ failedLog' = r.log
             /\ lastItem' = [id |-> AlbumCurrentId, kind |-> "image", before |-> mapping,
                             hit |-> r.hit, fetch |-> r.fetch, detected |-> r.detected,
                             qr |-> r.qr, matched |-> r.matched]
             /\ trail' = [trail EXCEPT !.visited = Append(@, AlbumCurrentId),
                                       !.failed = IF r.fetch = "failed"
                                                  THEN @ \cup {AlbumCurrentId} ELSE @,
                                       !.logBefore = failedLog]
             /\ IF r.raised THEN NextAlbum
                ELSE IF cursor.item < Len(AlbumPages[cursor.page])
                THEN pc' = "a_items" /\ cursor' = [cursor EXCEPT !.item = @ + 1]
                ELSE IF cursor.page < Len(AlbumPages)
                THEN pc' = "a_search" /\ cursor' = [cursor EXCEPT !.page = @ + 1, !.item = 0]
                ELSE NextAlbum
    /\ UNCHANGED <<drive, now, zipLast, pages, run, stats, thumbsFolder>>

\* main, lines 366-367
AlbumReport ==
    /\ pc = "a_report"
    /\ pc' = "a_done"
    /\ trail' = [trail EXCEPT !.saveReached = TRUE]
    /\ UNCHANGED <<mapping, files, drive, now, faults, zipLast, storeFile, pages, run,
                   cursor, stats, lastItem, thumbsFolder, failedLog>>

\* the variant is started again on the same library
AlbumRestart ==
    /\ pc = "a_done"
    /\ run < MaxRuns
    /\ pc' = "a_start"
    /\ run' = run + 1
    /\ now' = now + 1
    /\ mapping' = <<>>
    /\ cursor' = [album |-> 0, page |-> 0, item |-> 0]
    /\ lastItem' = NoItem
    /\ trail' = NoTrail
    /\ UNCHANGED <<files, drive, faults, zipLast, storeFile, pages, stats, thumbsFolder,
                   failedLog>>

\* the library: a photograph of A-1, one without a QR code, and a third one
PhotoLibraries ==
    { ("p1" :> MediaItem("a.jpg", PhotoBytes(ImgA1, <<"A-1">>, FALSE))) @@
      ("p2" :> MediaItem("b.jpg", PhotoBytes(ImgPlain, <<>>, FALSE))) @@
      ("p3" :> MediaItem("c.jpg", b)) :
        b \in { PhotoBytes(ImgA2, <<>>, FALSE), PhotoBytes(ImgEmptyQr, <<"">>, FALSE),
                PhotoBytes(ImgA1bare, <<"A-1">>, FALSE), PhotoBytes(ImgCorrupt, <<>>, FALSE),
                PhotoBytes(ImgPlain, <<>>, TRUE) } }

\* the albums found and the pages of each
PhotoAlbums ==
    { << [title |-> "CODICUM MPO", pages |-> p1], [title |-> "CODICUM FA", pages |-> p2] >> :
        p1 \in { << <<"p1", "p2">> >>, << <<"p2">>, <<>>, <<"p1">> >>, << <<"p3">>, <<"p2">> >> },
        p2 \in { << <<"p3">> >>, << <<"p3", "p1">> >> } }
    \cup { <<>> }

PhotoStored ==
    { [store |-> NoStore, files |-> <<>>],
      [store |-> [exists |-> TRUE, loadable |-> TRUE,
                  data |-> ("A-1" :> PhotoEntryRecord(MediaItem("a.jpg",
                                         PhotoBytes(ImgA1, <<"A-1">>, FALSE)),
                                         "p1", "CODICUM MPO", "A-1"))],
       files |-> (LocalPath("A-1") :> PhotoBytes(ImgA1, <<"A-1">>, FALSE))] }

AlbumInit ==
    /\ pc = "a_start"
    /\ run = 1
    /\ now = 1
    /\ faults = 0
    /\ mapping = <<>>
    /\ drive \in PhotoLibraries
    /\ pages \in PhotoAlbums
    /\ \E st \in PhotoStored : storeFile = st.store /\ files = st.files
    /\ cursor = [album |-> 0, page |-> 0, item |-> 0]
    /\ stats = [downloads |-> 0, matches |-> 0]
    /\ lastItem = NoItem
    /\ thumbsFolder = None
    /\ trail = NoTrail
    /\ failedLog \in {<<>>, <<"old.jpg | CODICUM FA | https://lh3.example/p0\n">>}
    /\ zipLast = NoZip

(***************************************************************************)
(* detect_qr (both variants), generate_thumbnails and extract_exif on      *)
(* their own: one call on a byte string, an identifier and a rectangle or  *)
(* None.                                                                   *)
(***************************************************************************)
\* byte strings: not an image, of length 0, a picture without a code, with
\* one code, with codes outside the top-left crop only, with a second code
\* inside it, with a code of empty payload, a picture two pixels high, a
\* picture with a code and no EXIF, the pictures of ExifPictures
ImageBytes ==
    { PhotoBytes(ImgCorrupt, <<>>, FALSE), PhotoBytes(ImgEmpty, <<>>, FALSE),
      PhotoBytes(ImgPlain, <<>>, FALSE), PhotoBytes(ImgA1, <<"A-1">>, FALSE),
      PhotoBytes(ImgA2, <<>>, FALSE), PhotoBytes(ImgA2, <<"A-1">>, FALSE),
      PhotoBytes(ImgEmptyQr, <<"">>, FALSE), PhotoBytes(ImgPlain, <<>>, TRUE),
      PhotoBytes(ImgA1bare, <<"A-1">>, FALSE) }
    \cup { PhotoBytes(image, <<>>, FALSE) : image \in ExifPictures }

ImageInit ==
    /\ pc = "img_call"
    /\ imgIn \in [qr_id : {"A-1", "B-07", ""}, image : ImageBytes, rect : {None, "rect"}]
    /\ imgOut = <<>>

DetectQr ==
    /\ pc = "img_call"
    /\ pc' = "qr_ret"
    /\ imgOut' = detect_qr(imgIn.image)
    /\ UNCHANGED imgIn

DetectQrPhotos ==
    /\ pc = "img_call"
    /\ pc' = "qr_photos_ret"
    /\ imgOut' = detect_qr_photos(imgIn.image)
    /\ UNCHANGED imgIn

GenerateThumbnails ==
    /\ pc = "img_call"
    /\ pc' = "thumbs_ret"
    /\ imgOut' = generate_thumbnails(imgIn.qr_id, imgIn.image, imgIn.rect)
    /\ UNCHANGED imgIn

ExtractExif ==
    /\ pc = "img_call"
    /\ pc' = "exif_ret"
    /\ imgOut' = extract_exif(imgIn.image)
    /\ UNCHANGED imgIn

(***************************************************************************)
(* Specifications.                                                         *)
(***************************************************************************)
InitGps ==
    GpsInit /\ ImgIdle /\ GapIdle /\ DataIdle /\ RunIdle /\ ZipIdle /\ HealIdle /\ SheetIdle /\ ProgIdle
NextGps ==
    GpsConvert /\ UNCHANGED <<imgVars, gapVars, mainVars, healVars, sheetVars, progVars>>
SpecGps == InitGps /\ [][NextGps]_vars

InitGap ==
    GapInit /\ ImgIdle /\ GpsIdle /\ DataIdle /\ RunIdle /\ ZipIdle /\ HealIdle /\ SheetIdle /\ ProgIdle
NextGap == GapAnalyse /\ UNCHANGED <<imgVars, gpsVars, mainVars, healVars, sheetVars, progVars>>
SpecGap == InitGap /\ [][NextGap]_vars

InitHeal == HealInit /\ ImgIdle /\ GpsIdle /\ GapIdle /\ RunIdle /\ ZipIdle /\ SheetIdle /\ ProgIdle
NextHeal ==
    \/ Heal("heal1", "heal2") /\ UNCHANGED <<imgVars, gpsVars, gapVars, sheetVars, progVars>>
    \/ Heal("heal2", "heal_done") /\ UNCHANGED <<imgVars, gpsVars, gapVars, sheetVars, progVars>>
SpecHeal == InitHeal /\ [][NextHeal]_vars

InitZip == ZipInit /\ ImgIdle /\ GpsIdle /\ GapIdle /\ HealIdle /\ SheetIdle /\ ProgIdle
NextZip == ZipOnly /\ UNCHANGED <<imgVars, gpsVars, gapVars, healVars, sheetVars, progVars>>
SpecZip == InitZip /\ [][NextZip]_vars

InitSheet == SheetInit /\ ImgIdle /\ GpsIdle /\ GapIdle /\ HealIdle /\ ZipIdle /\ ProgIdle
NextSheet ==
    \/ SheetRun("sheet1", "edit") /\ UNCHANGED <<imgVars, gpsVars, gapVars, healVars, progVars>>
    \/ EditStore /\ UNCHANGED <<imgVars, gpsVars, gapVars, healVars, progVars>>
    \/ SheetRun("sheet2", "sheet_done") /\ UNCHANGED <<imgVars, gpsVars, gapVars, healVars, progVars>>
SpecSheet == InitSheet /\ [][NextSheet]_vars

InitImage ==
    ImageInit /\ GpsIdle /\ GapIdle /\ DataIdle /\ RunIdle /\ ZipIdle /\ HealIdle /\ SheetIdle
              /\ ProgIdle
NextImage ==
    \/ DetectQr /\ UNCHANGED <<gpsVars, gapVars, mainVars, healVars, sheetVars, progVars>>
    \/ DetectQrPhotos
         /\ UNCHANGED <<gpsVars, gapVars, mainVars, healVars, sheetVars, progVars>>
    \/ GenerateThumbnails
         /\ UNCHANGED <<gpsVars, gapVars, mainVars, healVars, sheetVars, progVars>>
    \/ ExtractExif
         /\ UNCHANGED <<gpsVars, gapVars, mainVars, healVars, sheetVars, progVars>>
SpecImage == InitImage /\ [][NextImage]_vars

\* the Photos variant, run after run
InitAlbum == AlbumInit /\ ImgIdle /\ GpsIdle /\ GapIdle /\ HealIdle /\ SheetIdle
AlbumNext ==
    \/ AlbumStart /\ UNCHANGED <<imgVars, gpsVars, gapVars, healVars, sheetVars>>
    \/ AlbumSearch /\ UNCHANGED <<imgVars, gpsVars, gapVars, healVars, sheetVars>>
    \/ AlbumItem /\ UNCHANGED <<imgVars, gpsVars, gapVars, healVars, sheetVars>>
    \/ AlbumReport /\ UNCHANGED <<imgVars, gpsVars, gapVars, healVars, sheetVars>>
    \/ AlbumRestart /\ UNCHANGED <<imgVars, gpsVars, gapVars, healVars, sheetVars>>
SpecAlbum == InitAlbum /\ [][AlbumNext]_vars

\* main, run after run
Init == MainInit /\ ImgIdle /\ GpsIdle /\ GapIdle /\ HealIdle
Next ==
    \/ Start /\ UNCHANGED <<imgVars, gpsVars, gapVars, healVars, sheetVars>>
    \/ SetupThumbs /\ UNCHANGED <<imgVars, gpsVars, gapVars, healVars, sheetVars>>
    \/ ListPage /\ UNCHANGED <<imgVars, gpsVars, gapVars, healVars, sheetVars>>
    \/ ArchiveItem /\ UNCHANGED <<imgVars, gpsVars, gapVars, healVars, sheetVars>>
    \/ PlainItem /\ UNCHANGED <<imgVars, gpsVars, gapVars, healVars, sheetVars>>
    \/ Heal("heal", "upload") /\ UNCHANGED <<imgVars, gpsVars, gapVars, sheetVars, progVars>>
    \/ Upload /\ UNCHANGED <<imgVars, gpsVars, gapVars, healVars, sheetVars>>
    \/ Save /\ UNCHANGED <<imgVars, gpsVars, gapVars, healVars, sheetVars>>
    \/ Report /\ UNCHANGED <<imgVars, gpsVars, healVars>>
    \/ Restart
Spec == Init /\ [][Next]_vars

(***************************************************************************)
(* C9: get_decimal_from_dms returns degrees + minutes/60 + seconds/3600,   *)
(* negated exactly when the reference is "S" or "W"; (10,30,0) gives 10.5  *)
(* with "N" and -10.5 with "S".                                            *)
(***************************************************************************)
DmsDefined == \A i \in 1..3 : dmsIn.dms[i].d # 0

\* v * per as an integer, for a rational v = n/d whose multiple by per is whole
Whole(v, per) == (v.n * per) \div v.d
IsWhole(v, per) == Whole(v, per) * v.d = v.n * per

\* (degrees + minutes/60 + seconds/3600) in 1/360000 degree
DmsSum ==
    Whole(dmsIn.dms[1], 360000) + Whole(dmsIn.dms[2], 6000) + Whole(dmsIn.dms[3], 100)

C9_GpsConversion ==
    (pc = "gps_ret" /\ DmsDefined) =>
        /\ IsWhole(dmsIn.dms[1], 360000)
        /\ IsWhole(dmsIn.dms[2], 6000)
        /\ IsWhole(dmsIn.dms[3], 100)
        /\ dmsIn.ref \in {"S", "W"} => dmsOut = 0 - DmsSum
        /\ dmsIn.ref \in {"N", "E"} => dmsOut = DmsSum
        /\ ( /\ dmsIn.dms = << [n |-> 10, d |-> 1], [n |-> 30, d |-> 1], [n |-> 0, d |-> 1] >>
             /\ dmsIn.ref = "N" ) => dmsOut * 10 = 105 * GpsUnit
        /\ ( /\ dmsIn.dms = << [n |-> 10, d |-> 1], [n |-> 30, d |-> 1], [n |-> 0, d |-> 1] >>
             /\ dmsIn.ref = "S" ) => dmsOut * 10 = 0 - 105 * GpsUnit

C9_Witness ==
    /\ pc = "gps_ret"
    /\ dmsIn.dms = << [n |-> 10, d |-> 1], [n |-> 30, d |-> 1], [n |-> 0, d |-> 1] >>
    /\ dmsIn.ref = "S"
    /\ dmsOut < 0

(***************************************************************************)
(* C8: gap analysis groups the identifiers matching the pattern by prefix  *)
(* and reports, per prefix, the integers of [min, max] not observed, in    *)
(* ascending order, cut to the first 10; identifiers that do not match are *)
(* left out; A-1, A-2, A-4 report [3] for prefix "A-".                     *)
(***************************************************************************)
GapRan == pc = "gap_ret"

\* the numbers observed for prefix p, read off the identifiers
ObservedFor(p) ==
    { IntOf(ReSearch(Chars[q]).num) :
        q \in { r \in gapIds : /\ ReSearch(Chars[r]).ok
                               /\ ReSearch(Chars[r]).pref = p } }

MissingFor(p) == (Min(ObservedFor(p))..Max(ObservedFor(p))) \ ObservedFor(p)

C8_GapAnalysis ==
    GapRan =>
        /\ DOMAIN gapLog =
             { ReSearch(Chars[q]).pref :
                 q \in { r \in gapIds : ReSearch(Chars[r]).ok } }
        /\ \A p \in DOMAIN gapLog :
             LET rep == gapLog[p]
             IN  /\ \A i \in 1..Len(rep) : rep[i] \in MissingFor(p)
                 /\ \A i \in 1..(Len(rep) - 1) : rep[i] < rep[i + 1]
                 /\ Len(rep) = IF Cardinality(MissingFor(p)) < 10
                               THEN Cardinality(MissingFor(p)) ELSE 10
                 /\ \A x \in MissingFor(p) :
                      (Len(rep) > 0 /\ x < rep[Len(rep)]) =>
                          \E i \in 1..Len(rep) : rep[i] = x
        /\ gapIds = {"A-1", "A-2", "A-4"} => gapLog = (<<"A", "-">> :> <<3>>)

C8_Witness ==
    /\ GapRan
    /\ {"A-1", "A-13", "AB"} \subseteq gapIds
    /\ gapLog[<<"A", "-">>] = <<2, 3, 4, 5, 6, 7, 8, 9, 10, 11>>

(***************************************************************************)
(* C5: healing is a fixed point: with the local images and the remote      *)
(* owners unchanged, a second healing pass leaves the store produced by    *)
(* the first pass as it is.                                                *)
(***************************************************************************)
C5_HealingFixedPoint == pc = "heal_done" => mapping = healBefore

\* the second pass ran the thumbnail generator again, for an entry the first
\* pass could not complete
C5_Witness ==
    /\ pc = "heal_done"
    /\ "thumbs" \in healOps["A-1"]
    /\ mapping["A-1"].thumb_path = None
    /\ mapping["A-1"].camera = "Canon EOS"

(***************************************************************************)
(* C10: after one healing pass every entry whose local image exists and is *)
(* decodable has each of thumbnail path, QR crop path, camera and location *)
(* recomputed if that field was missing or "Unknown" before the pass,      *)
(* whatever its other fields hold.                                         *)
(***************************************************************************)
NeedsValue(item, k) == ~Truthy(Get(item, k)) \/ Get(item, k) = "Unknown"

C10_HealingCompleteness ==
    pc = "heal2" =>
        \A qid \in DOMAIN healBefore :
            LET item == healBefore[qid]
                path == GetOr(item, "local_path", "")
            IN  (path \in DOMAIN files /\ files[path].decodable) =>
                    /\ NeedsValue(item, "thumb_path") => "thumbs" \in healOps[qid]
                    /\ NeedsValue(item, "qr_path") => "thumbs" \in healOps[qid]
                    /\ NeedsValue(item, "camera") => "exif" \in healOps[qid]
                    /\ NeedsValue(item, "location") => "exif" \in healOps[qid]

(***************************************************************************)
(* C6: the archive process_zip builds omits every image entry whose base   *)
(* file name is the filename of a store entry and every image entry the QR *)
(* matcher matched, and holds every other entry (the images that were      *)
(* scanned without a match, the non-image entries) as it was, in the       *)
(* archive's order.                                                        *)
(***************************************************************************)
InSeq(x, seq) == \E i \in 1..Len(seq) : seq[i] = x

\* q is p with some elements left out
IsSubsequence(q, p) ==
    \E f \in [1..Len(q) -> 1..Len(p)] :
        /\ \A i \in 1..Len(q) : q[i] = p[f[i]]
        /\ \A i, j \in 1..Len(q) : i < j => f[i] < f[j]

IsImageEntry(e) == e.kind # "dir" /\ Lower(e.ext) \in image_exts
HasQr(e) == e.image.decodable /\ e.image.qrs # <<>> /\ e.image.qrs[1] # ""

C6_ZipReconciliation ==
    (zipLast.file # None /\ zipLast.built) =>
        LET old == zipLast.old
            new == zipLast.cleaned
        IN  /\ IsSubsequence(new, old)
            /\ \A i \in 1..Len(old) :
                 LET e == old[i]
                 IN  /\ (IsImageEntry(e) /\ FilenameCaptured(zipLast.before, Basename(e)))
                            => ~InSeq(e, new)
                     /\ (IsImageEntry(e) /\ HasQr(e)) => ~InSeq(e, new)
                     /\ ~IsImageEntry(e) => InSeq(e, new)
                     /\ ( /\ IsImageEntry(e) /\ ~HasQr(e)
                          /\ ~FilenameCaptured(zipLast.before, Basename(e))
                          /\ \A j \in 1..Len(old) :
                               (IsImageEntry(old[j]) /\ HasQr(old[j]))
                                   => Basename(old[j]) # Basename(e) )
                            => InSeq(e, new)

\* one entry already captured by file name, one newly matched, one kept
C6_Witness ==
    /\ pc = "zip_ret"
    /\ zipLast.built
    /\ Len(zipLast.old) = 3
    /\ \E i, j, k \in 1..3 :
         /\ FilenameCaptured(zipLast.before, Basename(zipLast.old[i]))
         /\ IsImageEntry(zipLast.old[i])
         /\ IsImageEntry(zipLast.old[j]) /\ HasQr(zipLast.old[j]) /\ j # i
         /\ IsImageEntry(zipLast.old[k]) /\ ~HasQr(zipLast.old[k]) /\ k # i
         /\ zipLast.cleaned = <<zipLast.old[k]>>


(***************************************************************************)
(* C1-C4 are stated on Spec: main, run after run.                          *)
(***************************************************************************)
\* the positions of process_folder at which the last item has just been handled
AfterItem == pc \in {"items", "list", "heal"} /\ lastItem.id # None

\* C1: a second run against the unchanged remote source and the store the
\* first run left, neither run meeting a failure, downloads nothing and
\* matches nothing.
C1_Idempotence ==
    pc = "done" /\ run = 2 /\ faults = 0
        => stats.downloads = 0 /\ stats.matches = 0

\* the entries the last item created or replaced
LastMatched ==
    { q \in DOMAIN mapping :
        q \notin DOMAIN lastItem.before \/ mapping[q] # lastItem.before[q] }

\* C2: once an item is matched and its entry created, the store file holds
\* that entry before the next item is considered.
C2_AtMatchDurability ==
    AfterItem /\ lastItem.matched
        => /\ storeFile.exists
           /\ \A q \in LastMatched :
                q \in DOMAIN storeFile.data /\ storeFile.data[q] = mapping[q]

\* C3: an enumerated item whose file id is the drive_id of some entry of the
\* store is not downloaded, no QR detection runs on it, and the store is as it
\* was before the item.
C3_SkipCheck ==
    AfterItem /\ DriveIdCaptured(lastItem.before, lastItem.id)
        => /\ lastItem.fetch = "none"
           /\ ~lastItem.detected
           /\ mapping = lastItem.before

C3_Witness ==
    /\ AfterItem /\ lastItem.kind = "image"
    /\ DriveIdCaptured(lastItem.before, lastItem.id)
    /\ run = 2

\* the payloads the decoder finds first in the readable images of an archive
ArchivePayloads(archive) ==
    { detect_qr(archive[i].image).data :
        i \in { j \in 1..Len(archive) :
                  /\ IsImageEntry(archive[j]) /\ archive[j].readable } }

\* C4: every key of the store, in memory and on file, is a non-empty string;
\* an image whose QR decode returned nothing leaves the store as it was, and
\* an archive adds entries only under payloads decoded from its images.
C4_IdentifierNonEmpty ==
    /\ \A q \in DOMAIN mapping \cup DOMAIN storeFile.data : q \notin {"", None, Absent}
    /\ AfterItem /\ lastItem.kind = "image" /\ lastItem.qr \in {"", None}
          => mapping = lastItem.before
    /\ AfterItem /\ lastItem.kind = "zip"
          => \A q \in DOMAIN mapping \ DOMAIN lastItem.before :
                q \in ArchivePayloads(zipLast.old) \ {"", None}

C4_Witness ==
    /\ AfterItem /\ lastItem.kind = "image"
    /\ lastItem.detected /\ lastItem.qr = ""
    /\ DOMAIN mapping # {}

(***************************************************************************)
(* C7 is stated on SpecSheet.                                              *)
(***************************************************************************)
\* the value of a cell; a cell a row does not reach is empty
Cell(rows, r, c) == IF r <= Len(rows) /\ c <= Len(rows[r]) THEN rows[r][c] ELSE ""

SheetWidth(rows) == Max({0} \cup { Len(rows[r]) : r \in 1..Len(rows) })

\* the cells whose value is not the same in the two sheets
Differs(before, after) ==
    { rc \in (1..Max({Len(before), Len(after)})) \X
             (1..Max({SheetWidth(before), SheetWidth(after)})) :
        Cell(before, rc[1], rc[2]) # Cell(after, rc[1], rc[2]) }

\* the sheet the first run produced, which the second run read
Produced == sheetRuns[2].before

HasColumn(header, name) == \E c \in 1..Len(header) : header[c] = name

\* the cell of the edited entry's row in the column of the edited field
EditedCell ==
    LET id_col == ColOf(Produced[1], "Parchment ID")
    IN  IF /\ HasColumn(Produced[1], FieldColumn(edited[2]))
           /\ HasExisting(Produced, id_col, edited[1])
        THEN { << ExistingRow(Produced, id_col, edited[1]),
                  ColOf(Produced[1], FieldColumn(edited[2])) >> }
        ELSE {}

\* the "Sync Date" cells of the rows of the store's entries
SyncDateCells ==
    LET id_col == ColOf(Produced[1], "Parchment ID")
    IN  IF ~HasColumn(Produced[1], "Sync Date") THEN {}
        ELSE { << ExistingRow(Produced, id_col, q), ColOf(Produced[1], "Sync Date") >> :
                 q \in { k \in DOMAIN mapping : HasExisting(Produced, id_col, k) } }

\* C7: log_to_gsheet re-run on the sheet an earlier run produced, with one
\* field of one entry changed: the only cell that differs is the cell of that
\* entry's row in that field's column; rows and column order are as they were.
C7_SpreadsheetMirror ==
    pc = "sheet_done" /\ sheetRuns[1].wrote
        => /\ Len(sheet) = Len(Produced)
           /\ Differs(Produced, sheet) \subseteq EditedCell

\* C7 as amended: for identifiers other than the header text, the cells that
\* differ are among that cell and the "Sync Date" cells of the entries' rows;
\* a run that rewrites the sheet puts the new value in that cell.
C7_SpreadsheetMirrorAmended ==
    pc = "sheet_done" /\ sheetRuns[1].wrote /\ "Parchment ID" \notin DOMAIN mapping
        => /\ Len(sheet) = Len(Produced)
           /\ Differs(Produced, sheet) \subseteq EditedCell \cup SyncDateCells
           /\ sheetRuns[2].wrote
                => \A rc \in EditedCell :
                     sheet[rc[1]][rc[2]] =
                       RowData(edited[1], mapping[edited[1]], now)[FieldColumn(edited[2])]

C7_Witness ==
    /\ pc = "sheet_done" /\ sheetRuns[1].wrote /\ sheetRuns[2].wrote
    /\ "Parchment ID" \notin DOMAIN mapping
    /\ EditedCell # {} /\ EditedCell \subseteq Differs(Produced, sheet)
    /\ SyncDateCells \subseteq Differs(Produced, sheet)
    /\ \E r \in 2..Len(sheet) : sheet[r][1] = "keep"

(***************************************************************************)
(* C11: an entry whose thumbnail path, QR crop path, camera, location and  *)
(* creator are all present and not "Unknown" and whose two remote          *)
(* references are set is left alone by the healing pass and by the upload  *)
(* backfill: nothing is read, generated, extracted, looked up or uploaded  *)
(* for it and every field keeps its value.                                 *)
(***************************************************************************)
Complete(item) ==
    /\ \A k \in {"thumb_path", "qr_path", "camera", "location", "creator"} :
          Truthy(Get(item, k)) /\ Get(item, k) # "Unknown"
    /\ Truthy(Get(item, "drive_thumb_id"))
    /\ Truthy(Get(item, "drive_qr_id"))

C11_CompleteEntriesUntouched ==
    pc \in {"upload", "save"} =>
        \A q \in DOMAIN healBefore :
            Complete(healBefore[q]) =>
                /\ healOps[q] = {}
                /\ mapping[q] = healBefore[q]
                /\ pc = "save" => \A t \in {"thumb", "qr"} : <<q, t>> \notin trail.uploadsSent

\* both passes are over; one entry was complete, another one was uploaded
C11_Witness ==
    /\ pc = "save"
    /\ \E q \in DOMAIN healBefore : Complete(healBefore[q])
    /\ trail.uploadsSent # {}

(***************************************************************************)
(* C12: the backfill pass calls for the upload of an entry's thumbnail     *)
(* (of its QR crop) exactly when the entry has a path for it and no remote *)
(* reference for it; a remote reference an entry has is never replaced and *)
(* never dropped, by the pass or by anything that runs after it.           *)
(***************************************************************************)
RemoteKey(t) == IF t = "thumb" THEN "drive_thumb_id" ELSE "drive_qr_id"
PathKey(t) == IF t = "thumb" THEN "thumb_path" ELSE "qr_path"

\* the remote references of old are the remote references of new
KeepsRemote(old, new) ==
    \A q \in DOMAIN old : \A t \in {"thumb", "qr"} :
        Truthy(Get(old[q], RemoteKey(t))) =>
            q \in DOMAIN new /\ Get(new[q], RemoteKey(t)) = Get(old[q], RemoteKey(t))

C12_UploadBackfill ==
    /\ pc = "save" =>
          /\ trail.uploadsAsked =
                { qt \in (DOMAIN trail.uploadBefore) \X {"thumb", "qr"} :
                    /\ Truthy(Get(trail.uploadBefore[qt[1]], PathKey(qt[2])))
                    /\ ~Truthy(Get(trail.uploadBefore[qt[1]], RemoteKey(qt[2]))) }
          /\ KeepsRemote(trail.uploadBefore, mapping)
    /\ AfterItem => KeepsRemote(lastItem.before, mapping)

(***************************************************************************)
(* C13: an asset whose bytes cannot be retrieved is skipped and creates no *)
(* entry; the run goes on, and when the enumeration is over every asset it *)
(* lists, on the page of the failure and on later pages, has been handled. *)
(***************************************************************************)
RECURSIVE Listed(_)
\* the items of the pages the loop of line 415 asks for: it leaves at the
\* first page without items
Listed(ps) ==
    IF ps = <<>> \/ Head(ps) = <<>> THEN <<>> ELSE Head(ps) \o Listed(Tail(ps))

C13_FetchFailureIsolation ==
    /\ (AfterItem /\ lastItem.fetch = "failed") => mapping = lastItem.before
    /\ pc = "dead" => trail.listFailed
    /\ (pc = "heal" /\ trail.failed # {}) => trail.visited = Listed(pages)

\* a download failed, and an asset listed after it was matched
C13_Witness ==
    /\ pc = "heal"
    /\ trail.failed # {}
    /\ lastItem.id \notin trail.failed
    /\ lastItem.matched

(***************************************************************************)
(* C14: when the listing call of the target folder fails, process_folder   *)
(* stops early and main still goes on to the healing, upload and           *)
(* persistence steps: the run does not end before the store is saved.      *)
(***************************************************************************)
C14_ListingFailureContained ==
    trail.listFailed => pc \in {"heal", "upload", "save", "report", "done"}

(***************************************************************************)
(* C15: an asset that was fetched and in which the QR matcher found no     *)
(* identifier adds exactly one line to the failure log and no entry to the *)
(* store, and the next asset is taken; the lines the log had are kept.     *)
(***************************************************************************)
\* an asset has just been handled and nothing else has happened since
JustHandled ==
    /\ lastItem.id # None
    /\ pc \in {"items", "list", "heal", "a_items", "a_search", "a_report"}

IsPrefix(p, q) == Len(p) <= Len(q) /\ \A i \in 1..Len(p) : q[i] = p[i]

C15_UnmatchedLogged ==
    JustHandled =>
        /\ IsPrefix(trail.logBefore, failedLog)
        /\ (lastItem.kind = "image" /\ lastItem.fetch = "done" /\ lastItem.detected
              /\ ~Truthy(lastItem.qr)) =>
                /\ Len(failedLog) = Len(trail.logBefore) + 1
                /\ mapping = lastItem.before

(***************************************************************************)
(* C16: the enumeration asks for the next page whenever the last response  *)
(* carried a next-page token and stops only at a response without one, so  *)
(* that every item of every page of the token chain is visited, also when  *)
(* a page in between has no items.                                         *)
(***************************************************************************)
RECURSIVE Flatten(_)
Flatten(ps) == IF ps = <<>> THEN <<>> ELSE Head(ps) \o Flatten(Tail(ps))

C16_Pagination ==
    (pc = "heal" /\ ~trail.listFailed) => trail.visited = Flatten(pages)

(***************************************************************************)
(* C17: process_zip writes over the remote archive exactly when the        *)
(* archive it built leaves out at least one entry of the original (a       *)
(* duplicate already captured or an image newly matched); when nothing was *)
(* left out the remote archive is not written.                             *)
(***************************************************************************)
C17_ZipRewriteGuarded ==
    pc = "zip_ret" =>
        /\ zipLast.built => (zipLast.attempted <=> zipLast.cleaned # zipLast.old)
        /\ zipLast.attempted => zipLast.built
        /\ zipLast.replaced => zipLast.attempted
        /\ drive[zipLast.file].archive =
              IF zipLast.replaced THEN zipLast.cleaned ELSE zipLast.old

\* an archive of three entries none of which is left out, read to its end:
\* the remote archive is not written
C17_Witness ==
    /\ pc = "zip_ret"
    /\ zipLast.built
    /\ Len(zipLast.old) = 3
    /\ zipLast.cleaned = zipLast.old
    /\ \E i \in 1..3 : IsImageEntry(zipLast.old[i])
    /\ ~zipLast.attempted
    /\ drive[zipLast.file].archive = zipLast.old

(***************************************************************************)
(* C18: whatever the sheet and the store, log_to_gsheet writes a sheet     *)
(* whose first row is the header row, which still has every data row the   *)
(* sheet had, in which each identifier of the store has exactly one row    *)
(* (its old row updated in place, or a new row), and whose data rows are   *)
(* in ascending order of identifier.                                       *)
(***************************************************************************)
\* the sheet as the call found it
Found == SheetGet(sheetRuns[1].before)

HeaderNames == { headers[i] : i \in 1..Len(headers) }

\* row r of the sheet found is row j of the sheet written: the identifier and
\* the cells of the columns that are not log_to_gsheet's are the same
CarriedTo(r, j, id_col) ==
    \A c \in 1..Len(Found[r]) :
        (c = id_col \/ Cell(Found, 1, c) \notin HeaderNames)
            => Cell(sheet, j, c) = Found[r][c]

C18_SpreadsheetRows ==
    (pc = "edit" /\ sheetRuns[1].fail = "none") =>
        /\ sheet # <<>>
        /\ sheet[1] = IF Found = <<>> THEN headers ELSE EnsureHeaders(Found[1], 1)
        /\ LET id_col == ColOf(sheet[1], "Parchment ID")
           IN  /\ \A r \in 2..Len(Found) : \E j \in 2..Len(sheet) : CarriedTo(r, j, id_col)
               /\ \A q \in DOMAIN mapping :
                     Cardinality({ j \in 2..Len(sheet) : Cell(sheet, j, id_col) = q }) = 1
               /\ \A j \in 2..(Len(sheet) - 1) :
                     ~StrLess(Cell(sheet, j + 1, id_col), Cell(sheet, j, id_col))

(***************************************************************************)
(* C19: for bytes that decode to a picture generate_thumbnails writes the  *)
(* width-300 preview and returns its path, with or without a rectangle;    *)
(* the path of the QR crop is returned only with a rectangle; and for      *)
(* every input the caller gets a pair of optional paths, never an          *)
(* exception and never a value that is not a pair.                         *)
(***************************************************************************)
C19_ThumbnailResult ==
    pc = "thumbs_ret" =>
        /\ ~imgOut.bare
        /\ imgIn.image.decodable =>
              /\ ThumbPath(imgIn.qr_id) \in imgOut.written
              /\ imgOut.thumb = ThumbPath(imgIn.qr_id)
        /\ imgOut.qr # None => imgIn.rect # None

(***************************************************************************)
(* C20: for every byte string detect_qr gives back the identifier and the  *)
(* rectangle of the first element of the decoder's list, or (None, None);  *)
(* no exception leaves it.  The variant that scans the top-left crop gives *)
(* back the identifier alone.                                              *)
(***************************************************************************)
C20_QrMatcherTotal ==
    /\ pc = "qr_ret" =>
          \/ imgOut = [data |-> None, rect |-> None]
          \/ /\ imgIn.image.qrs # <<>>
             /\ imgOut = [data |-> imgIn.image.qrs[1], rect |-> "rect"]
    /\ pc = "qr_photos_ret" =>
          /\ imgOut # Raised
          /\ imgOut = None \/ (imgIn.image.cropQrs # <<>> /\ imgOut = imgIn.image.cropQrs[1])

(***************************************************************************)
(* C21: extract_exif never raises; the location is "Unknown" unless the    *)
(* latitude, its reference, the longitude and its reference are all        *)
(* there; the camera is "Unknown" when make and model are both missing or  *)
(* empty; and the result is ("Unknown", "Unknown") on any decode failure,  *)
(* a failure while converting the GPS values included.                     *)
(***************************************************************************)
Unknowns == [camera |-> "Unknown", location |-> "Unknown"]

AllFour(gps) ==
    /\ gps.present
    /\ gps.lat # <<>> /\ gps.lat_ref # Absent
    /\ gps.lon # <<>> /\ gps.lon_ref # Absent

DecodeFailure(image_data) ==
    \/ image_data.empty
    \/ ~image_data.decodable
    \/ ~image_data.exif.ok
    \/ /\ AllFour(image_data.exif.gps)
       /\ DmsRaises(image_data.exif.gps.lat) \/ DmsRaises(image_data.exif.gps.lon)

C21_ExifTotal ==
    pc = "exif_ret" =>
        /\ imgOut.camera # Raised
        /\ imgOut.camera \in STRING /\ imgOut.location \in STRING
        /\ (~imgIn.image.exif.ok \/ ~AllFour(imgIn.image.exif.gps))
              => imgOut.location = "Unknown"
        /\ (/\ imgIn.image.exif.make \in {Absent, ""}
            /\ imgIn.image.exif.model \in {Absent, ""})
              => imgOut.camera = "Unknown"
        /\ DecodeFailure(imgIn.image) => imgOut = Unknowns

(***************************************************************************)
(* C22: when get_services cannot obtain credentials the run ends there:    *)
(* no page of the folder is listed, no asset is fetched, and the store     *)
(* file, the sheet and the remote Drive stay as the run found them.        *)
(***************************************************************************)
C22_FatalSetup ==
    trail.authFailed =>
        /\ pc \in {"done", "a_done"}
        /\ ~trail.listed /\ trail.visited = <<>>
        /\ stats.downloads = 0
        /\ ~trail.saveReached /\ trail.uploadsSent = {}
        /\ storeFile = trail.atStart.store
        /\ sheet = trail.atStart.sheet
        /\ drive = trail.atStart.drive
        /\ thumbsFolder = None

\* the credentials could not be obtained in a run that had a folder with
\* assets to list and a store to save
C22_Witness ==
    /\ trail.authFailed
    /\ pc = "done" /\ run = MaxRuns
    /\ pages # <<>> /\ pages[1] # <<>>
    /\ storeFile.exists

(***************************************************************************)
(* C23: an entry that exists for an identifier is never replaced or        *)
(* stripped by a later asset: after every folder or ZIP processing step    *)
(* each entry the store held before the step is still there with the same  *)
(* drive id, the same source zip and the same remote thumbnail and QR      *)
(* references, also when the step's asset decodes to that identifier.      *)
(***************************************************************************)
SourceAndRemoteKeys == {"drive_id", "source_zip", "drive_thumb_id", "drive_qr_id"}

C23_EntryNeverReplaced ==
    AfterItem =>
        \A q \in DOMAIN lastItem.before :
            /\ q \in DOMAIN mapping
            /\ \A k \in SourceAndRemoteKeys : mapping[q][k] = lastItem.before[q][k]

(***************************************************************************)
(* C24: a store file that exists but fails to load is never overwritten    *)
(* with a store that lacks its entries: every identifier the store file    *)
(* recorded when the process started is still recorded in the store file   *)
(* when the run has ended.                                                 *)
(***************************************************************************)
C24_StoreKeepsEntries ==
    pc \in {"done", "dead"} =>
        \A q \in DOMAIN trail.atStart.store.data : q \in DOMAIN storeFile.data

(***************************************************************************)
(* C25: the count process_zip returns is the number of entries the call    *)
(* added to the in-memory store, on every path, the one through its        *)
(* exception handler included; when it returns 0 the store is as it was.   *)
(***************************************************************************)
C25_ZipCountExact ==
    (pc = "zip_ret" /\ zipLast.file # None) =>
        /\ zipLast.ret = Cardinality(DOMAIN mapping \ DOMAIN zipLast.before)
        /\ zipLast.ret = 0 => mapping = zipLast.before

====
